---- MODULE Spec2Model ----
(***************************************************************************)
(* A model of the Notion proxy service (src/main.py, src/notion_writer.py). *)
(*                                                                         *)
(* Part 1: the workspace scanner, main._scan_workspace, together with the  *)
(* pagination helpers it calls and extract_title.  The Notion workspace is *)
(* the environment: a finite graph of blocks chosen in Init.               *)
(***************************************************************************)
EXTENDS Integers, Sequences, FiniteSets, TLC

\* ------------------------------------------------------------------ bounds
\* Number of block ids of the workspace (id 1 is the root page).
MaxId == 3
\* Largest number of parent/child links of the workspace graph.
MaxEdges == 3
\* Largest number of items the server puts into one response.
ServerChunk == 1

\* ------------------------------------------------------- program constants
\* page_size asked by _paginate_block_children.
BlockPageSize == 100
\* page_size asked for the row query by _scan_workspace.
ScanRowPageSize == 50
\* Upper limit of page_size in _paginate_database_pages.
RowPageSizeCap == 100

VARIABLES
    \* the workspace (environment), fixed during a scan
    kind,                 \* block id -> type of the block
    edges,                \* set of <<parent id, child id>>
    failStatus,           \* the status the server answers for FailId
    \* locals of _scan_workspace
    block_queue,
    seen_block_ids,
    database_queue,
    seen_database_pages,
    databases,            \* dict in insertion order: sequence of entries
    pages,                \* dict in insertion order: sequence of entries
    pc,                   \* "scan" | "done" (returned) | "failed" (raised)
    exc,                  \* status code of the HTTPException that escaped
    \* history of the requests sent during the scan
    listed,               \* block id -> number of children listings
    queried,              \* database id -> number of row queries
    skipped,              \* databases whose row query failure was swallowed
    turns,                \* number of turns the loops of the scan have taken
    \* what an operation is called with (environment and arguments)
    db_schema,    \* the "properties" of the database read from Notion
    params_properties,     \* the properties the caller gives, in dict order
    parent_type,          \* parent.type of the page an update addresses
    id_value,             \* the id the caller gives, a JSON value
    environ,              \* os.environ: the values of the token variables
    response,             \* what Notion answers to the request of the call
    service,              \* "starting", then "serving" or "failed"
    \* one call of an operation
    op,                   \* "" before the call, then the operation called
    requests,             \* the requests the call sent to Notion, in order
    reply                 \* what the call returned or raised

scanVars == <<kind, edges, failStatus, block_queue, seen_block_ids,
              database_queue, seen_database_pages, databases, pages, pc, exc,
              listed, queried, skipped, turns>>

opVars == <<db_schema, params_properties, parent_type, id_value, environ,
            response, service, op, requests, reply>>

vars == <<scanVars, opVars>>

\* What a call returned or raised.  kind: "none" before the call,
\* "returned" (a helper's return value), "ok" and "fail" (the two response
\* bodies of /command, or a route's 200), "raised" (HTTPException or
\* NotionAPIError with status `code`), "crash" (any other exception).
Reply(how, code, reason, payload, errors, rejected) ==
    [kind |-> how, code |-> code, reason |-> reason, payload |-> payload,
     errors |-> errors, rejected |-> rejected]

NoReply == Reply("none", 0, "", <<>>, <<>>, <<>>)

\* An exception that is neither HTTPException nor NotionAPIError escapes.
Crashed == Reply("crash", 0, "AttributeError", <<>>, <<>>, <<>>)

\* ------------------------------------------------------------- environment
Ids == 1..MaxId
Root == 1
NoId == 0
\* The one node whose listing the server may refuse.
FailId == MaxId

BlockTypes == {"child_page", "child_database", "toggle"}
AllEdges == {e \in Ids \X Ids : e[1] # e[2]}
Graphs == {g \in SUBSET AllEdges : Cardinality(g) <= MaxEdges}

Min(a, b) == IF a < b THEN a ELSE b

\* The ids of a set in ascending order.
RECURSIVE SortedSeq(_)
SortedSeq(S) ==
    IF S = {} THEN <<>>
    ELSE LET m == CHOOSE x \in S : \A y \in S : x <= y
         IN <<m>> \o SortedSeq(S \ {m})

ChildIds(p) == {e[2] : e \in {f \in edges : f[1] = p}}

NoParentRaw == [type |-> "", id |-> NoId]

\* The block object the server returns for child c in the listing of p.
\* A link back to a smaller id carries neither title nor parent.
ServerBlock(p, c) ==
    [id |-> c,
     type |-> kind[c],
     has_children |-> (kind[c] # "child_database" /\ ChildIds(c) # {}),
     title |-> IF p < c THEN "T" \o ToString(c) ELSE "",
     parent |-> IF p < c THEN [type |-> "page_id", id |-> p] ELSE NoParentRaw]

\* The properties of the page object of row c: odd rows have a title
\* property called Name, even rows have only a rich_text property.
RowProperties(c) ==
    IF c % 2 = 1
    THEN <<[name |-> "Name", type |-> "title", parts |-> <<"Row", ToString(c)>>]>>
    ELSE <<[name |-> "Notes", type |-> "rich_text", parts |-> <<"note">>]>>

ServerRow(d, c) ==
    [id |-> c,
     parent |-> [type |-> "database_id", id |-> d],
     properties |-> RowProperties(c)]

\* What GET /blocks/{id}/children lists: nothing for a database id.
BlockChildren(p) ==
    IF kind[p] = "child_database" THEN <<>>
    ELSE LET ids == SortedSeq(ChildIds(p))
         IN [i \in 1..Len(ids) |-> ServerBlock(p, ids[i])]

\* What POST /databases/{id}/query holds: nothing for a non-database id.
DatabaseRows(d) ==
    IF kind[d] # "child_database" THEN <<>>
    ELSE LET ids == SortedSeq(ChildIds(d))
         IN [i \in 1..Len(ids) |-> ServerRow(d, ids[i])]

\* One response of a cursor-paginated endpoint: at most ServerChunk items,
\* never more than the page_size asked. A cursor is the index of the next item.
ServerPage(items, cursor, page_size) ==
    LET n == Min(page_size, ServerChunk)
        last == Min(cursor + n - 1, Len(items))
    IN [results |-> SubSeq(items, cursor, last),
        has_more |-> last < Len(items),
        next_cursor |-> last + 1]

\* The endpoint of FailId that the server may refuse: the row query of a
\* database, the children listing of any other block.
FailEndpoint == IF kind[FailId] = "child_database" THEN "query" ELSE "children"

\* The status of the response to a request of `endpoint` for `id`: the server
\* answers the last request of the listing of FailId with failStatus, all
\* others with 200.
ResponseStatus(endpoint, id, page) ==
    IF id = FailId /\ endpoint = FailEndpoint /\ ~page.has_more
    THEN failStatus ELSE 200

\* ------------------------------------------------- gateway and pagination
\* Mutant: only server errors make _request raise.
ResponseOk_Below500(status) == status < 500

\* requests.Response.ok, on which _request decides to raise.
ResponseOk(status) == status < 400

\* The loop of _paginate_block_children / _paginate_database_pages: one
\* request per result page; _request raises on the first refused request and
\* the pages gathered so far are lost with the frame.
RECURSIVE PaginateLoop(_, _, _, _, _, _, _)
PaginateLoop(endpoint, id, items, cursor, page_size, acc, nreq) ==
    LET page == ServerPage(items, cursor, page_size)
        status == ResponseStatus(endpoint, id, page)
    IN IF ~ResponseOk(status)
       THEN [ok |-> FALSE, status |-> status, results |-> <<>>, requests |-> nreq + 1]
       ELSE IF ~page.has_more
            THEN [ok |-> TRUE, status |-> status,
                  results |-> acc \o page.results, requests |-> nreq + 1]
            ELSE PaginateLoop(endpoint, id, items, page.next_cursor, page_size,
                              acc \o page.results, nreq + 1)

paginate_block_children(block_id) ==
    PaginateLoop("children", block_id, BlockChildren(block_id), 1,
                 BlockPageSize, <<>>, 0)

paginate_database_pages(database_id, page_size) ==
    PaginateLoop("query", database_id, DatabaseRows(database_id), 1,
                 Min(page_size, RowPageSizeCap), <<>>, 0)

\* ------------------------------------------------------------ extract_title
RECURSIVE extract_plain_text(_)
extract_plain_text(parts) ==
    IF parts = <<>> THEN "" ELSE Head(parts) \o extract_plain_text(Tail(parts))

\* properties.get("Name"): the index of the property called Name, or 0.
NameIndex(properties) ==
    IF \E i \in 1..Len(properties) : properties[i].name = "Name"
    THEN CHOOSE i \in 1..Len(properties) : properties[i].name = "Name"
    ELSE 0

\* The loop of extract_title over properties.values(), from index i on.
RECURSIVE FirstTitleText(_, _)
FirstTitleText(properties, i) ==
    IF i > Len(properties) THEN "Untitled"
    ELSE IF properties[i].type = "title"
            /\ extract_plain_text(properties[i].parts) # ""
         THEN extract_plain_text(properties[i].parts)
         ELSE FirstTitleText(properties, i + 1)

extract_title(properties) ==
    LET n == NameIndex(properties)
    IN IF n # 0 /\ properties[n].type = "title"
          /\ extract_plain_text(properties[n].parts) # ""
       THEN extract_plain_text(properties[n].parts)
       ELSE FirstTitleText(properties, 1)

\* ---------------------------------------------------------- _scan_workspace
NoParent == [type |-> "none", id |-> NoId]

build_parent_info(parent) ==
    IF parent.type = "" THEN NoParent
    ELSE IF parent.id = NoId THEN NoParent
    ELSE [type |-> parent.type, id |-> parent.id]

\* Python's `a or b` on strings.
StrOr(a, b) == IF a # "" THEN a ELSE b

\* Python's `a or b` on parent infos (None is falsy).
ParentOr(a, b) == IF a # NoParent THEN a ELSE b

HasKey(dict, id) == \E i \in 1..Len(dict) : dict[i].id = id

KeyIndex(dict, id) == CHOOSE i \in 1..Len(dict) : dict[i].id = id

\* dict.get(id, {}) of a catalog: the entry, or one without title and parent.
DictGet(dict, id) ==
    IF HasKey(dict, id) THEN dict[KeyIndex(dict, id)]
    ELSE [id |-> id, title |-> "", parent |-> NoParent]

\* dict[id] = entry: an existing key keeps its place in the order.
DictSet(dict, entry) ==
    IF HasKey(dict, entry.id)
    THEN [dict EXCEPT ![KeyIndex(dict, entry.id)] = entry]
    ELSE Append(dict, entry)

\* Mutant: the entry of an id that is met again is written over.
DictSetDefault_Overwrites(dict, entry) ==
    IF \E i \in 1..Len(dict) : dict[i].id = entry.id
    THEN [i \in 1..Len(dict) |-> IF dict[i].id = entry.id THEN entry ELSE dict[i]]
    ELSE Append(dict, entry)

\* dict.setdefault(id, entry): the first entry of an id stays.
DictSetDefault(dict, entry) ==
    IF HasKey(dict, entry.id) THEN dict ELSE Append(dict, entry)


\* Mutant: only 403 is swallowed.
SwallowedStatuses_Only403 == {403}

\* The statuses of a row query failure that the scan swallows.
SwallowedStatuses == {403, 404}

\* Mutant: the visited set of blocks is not consulted.
SkipBlock_IgnoresSeen(block_id, seen) == block_id = NoId

\* `if not block_id or block_id in seen_block_ids: continue`
SkipBlock(block_id, seen) == block_id = NoId \/ block_id \in seen

\* Mutant: the set of processed databases is not consulted.
SkipDatabase_IgnoresSeen(database_id, seen) == FALSE

\* `if database_id in seen_database_pages: continue`
SkipDatabase(database_id, seen) == database_id \in seen

\* The catalog entry of a child_database block, merged with the existing one.
DatabaseEntry(block, existing) ==
    LET parent_info == build_parent_info(block.parent)
        title == StrOr(block.title, "Untitled")
    IN [id |-> block.id,
        title |-> StrOr(title, StrOr(existing.title, "Untitled")),
        parent |-> ParentOr(parent_info, existing.parent)]

\* The catalog entry of a child_page block.
ChildPageEntry(block) ==
    [id |-> block.id,
     title |-> StrOr(block.title, "Untitled"),
     parent |-> build_parent_info(block.parent)]

\* The catalog entry of a database row.
RowEntry(page) ==
    [id |-> page.id,
     title |-> extract_title(page.properties),
     parent |-> build_parent_info(page.parent)]

\* `if block_type == "child_database":` of the loop over the children.
OnChildDatabase(block, st) ==
    IF block.type = "child_database" /\ block.id # NoId
    THEN [st EXCEPT
            !.databases = DictSet(st.databases,
                                  DatabaseEntry(block, DictGet(st.databases, block.id))),
            !.database_queue = IF block.id \notin st.seen_database_pages
                               THEN Append(st.database_queue, block.id)
                               ELSE st.database_queue]
    ELSE st

\* `if block_type == "child_page":`
OnChildPage(block, st) ==
    IF block.type = "child_page" /\ block.id # NoId
    THEN [st EXCEPT
            !.pages = DictSetDefault(st.pages, ChildPageEntry(block)),
            !.block_queue = Append(st.block_queue, block.id)]
    ELSE st

\* Mutant: blocks with children are not descended into.
OnHasChildren_Ignored(block, st) == st

\* `if block.get("has_children"):`
OnHasChildren(block, st) ==
    IF block.has_children /\ block.id # NoId
    THEN [st EXCEPT !.block_queue = Append(st.block_queue, block.id)]
    ELSE st

\* The body of `for block in _paginate_block_children(block_id)`.
RECURSIVE ProcessBlocks(_, _, _)
ProcessBlocks(blocks, i, st) ==
    IF i > Len(blocks) THEN st
    ELSE ProcessBlocks(blocks, i + 1,
             OnHasChildren(blocks[i],
                 OnChildPage(blocks[i], OnChildDatabase(blocks[i], st))))

\* The body of `for page in database_pages`.
RECURSIVE ProcessRows(_, _, _)
ProcessRows(rows, i, st) ==
    IF i > Len(rows) THEN st
    ELSE IF rows[i].id = NoId THEN ProcessRows(rows, i + 1, st)
    ELSE ProcessRows(rows, i + 1,
             [st EXCEPT
                !.pages = DictSetDefault(st.pages, RowEntry(rows[i])),
                !.block_queue = Append(st.block_queue, rows[i].id)])

Locals ==
    [databases |-> databases, pages |-> pages, block_queue |-> block_queue,
     database_queue |-> database_queue,
     seen_database_pages |-> seen_database_pages]

\* One turn of `while block_queue:`.
ScanBlock ==
    /\ pc = "scan"
    /\ UNCHANGED opVars
    /\ block_queue # <<>>
    /\ LET block_id == block_queue[Len(block_queue)]
           popped == [Locals EXCEPT
                        !.block_queue = SubSeq(block_queue, 1, Len(block_queue) - 1)]
       IN IF SkipBlock(block_id, seen_block_ids)
          THEN /\ block_queue' = popped.block_queue
               /\ UNCHANGED <<seen_block_ids, database_queue, databases, pages,
                              pc, exc, listed>>
          ELSE LET r == paginate_block_children(block_id)
                   st == IF r.ok THEN ProcessBlocks(r.results, 1, popped) ELSE popped
               IN /\ seen_block_ids' = seen_block_ids \cup {block_id}
                  /\ listed' = [listed EXCEPT ![block_id] = @ + 1]
                  /\ block_queue' = st.block_queue
                  /\ database_queue' = st.database_queue
                  /\ databases' = st.databases
                  /\ pages' = st.pages
                  /\ pc' = IF r.ok THEN "scan" ELSE "failed"
                  /\ exc' = IF r.ok THEN exc ELSE r.status
    /\ turns' = turns + 1
    /\ UNCHANGED <<kind, edges, failStatus, seen_database_pages, queried, skipped>>

\* `if database_queue:` once the block queue is empty.
ScanDatabase ==
    /\ pc = "scan"
    /\ UNCHANGED opVars
    /\ block_queue = <<>>
    /\ database_queue # <<>>
    /\ LET database_id == database_queue[Len(database_queue)]
           popped == [Locals EXCEPT
                        !.database_queue =
                            SubSeq(database_queue, 1, Len(database_queue) - 1)]
       IN IF SkipDatabase(database_id, seen_database_pages)
          THEN /\ database_queue' = popped.database_queue
               /\ UNCHANGED <<seen_database_pages, block_queue, pages, pc, exc,
                              queried, skipped>>
          ELSE LET r == paginate_database_pages(database_id, ScanRowPageSize)
                   swallow == ~r.ok /\ r.status \in SwallowedStatuses
                   st == IF r.ok THEN ProcessRows(r.results, 1, popped) ELSE popped
               IN /\ seen_database_pages' = seen_database_pages \cup {database_id}
                  /\ queried' = [queried EXCEPT ![database_id] = @ + 1]
                  /\ database_queue' = st.database_queue
                  /\ block_queue' = st.block_queue
                  /\ pages' = st.pages
                  /\ skipped' = IF swallow THEN skipped \cup {database_id} ELSE skipped
                  /\ pc' = IF r.ok \/ swallow THEN "scan" ELSE "failed"
                  /\ exc' = IF r.ok \/ swallow THEN exc ELSE r.status
    /\ turns' = turns + 1
    /\ UNCHANGED <<kind, edges, failStatus, seen_block_ids, databases, listed>>

\* `return databases, pages` when both queues are empty.
ScanReturn ==
    /\ pc = "scan"
    /\ UNCHANGED opVars
    /\ block_queue = <<>>
    /\ database_queue = <<>>
    /\ pc' = "done"
    /\ turns' = turns + 1
    /\ UNCHANGED <<kind, edges, failStatus, block_queue, seen_block_ids,
                   database_queue, seen_database_pages, databases, pages, exc,
                   listed, queried, skipped>>

FailStatuses == {200, 403, 404, 500}

Init ==
    /\ kind \in {k \in [Ids -> BlockTypes] : k[Root] = "child_page"}
    /\ edges \in Graphs
    /\ failStatus \in FailStatuses
    /\ block_queue = <<Root>>
    /\ seen_block_ids = {}
    /\ database_queue = <<>>
    /\ seen_database_pages = {}
    /\ databases = <<>>
    /\ pages = <<>>
    /\ pc = "scan"
    /\ exc = 0
    /\ listed = [i \in Ids |-> 0]
    /\ queried = [i \in Ids |-> 0]
    /\ skipped = {}
    /\ turns = 0
    /\ db_schema = <<>>
    /\ params_properties = <<>>
    /\ parent_type = ""
    /\ id_value = <<>>
    /\ environ = <<>>
    /\ response = <<>>
    /\ service = "serving"
    /\ op = ""
    /\ requests = <<>>
    /\ reply = NoReply

Next == ScanBlock \/ ScanDatabase \/ ScanReturn

Spec == Init /\ [][Next]_vars


\* ------------------------------------------------- claims on the scanner
\* The ids that are keys of a catalog.
Keys(dict) == {dict[i].id : i \in 1..Len(dict)}

\* The number of entries a catalog holds for an id.
Occurrences(dict, id) == Cardinality({i \in 1..Len(dict) : dict[i].id = id})

\* The children the listing of block t shows (a database id lists none).
Listed(t) == IF kind[t] = "child_database" THEN {} ELSE ChildIds(t)

\* The rows of database d, none when its row query is among the `dropped`.
RowsOf(d, dropped) ==
    IF kind[d] = "child_database" /\ d \notin dropped THEN ChildIds(d) ELSE {}

\* The child_database blocks shown by the listings of the blocks in T.
DatabasesUnder(T) ==
    {c \in Ids : \E t \in T : c \in Listed(t) /\ kind[c] = "child_database"}

\* The blocks whose children are to be listed: the root, the child pages and
\* the blocks flagged has_children shown by a listing, and the rows of the
\* databases shown by a listing.
RECURSIVE ReachBlocks(_, _)
ReachBlocks(T, dropped) ==
    LET viaListing == {c \in Ids : \E t \in T :
                          /\ c \in Listed(t)
                          /\ \/ kind[c] = "child_page"
                             \/ (kind[c] # "child_database" /\ ChildIds(c) # {})}
        viaRows == {c \in Ids : \E d \in DatabasesUnder(T) : c \in RowsOf(d, dropped)}
        T2 == T \cup viaListing \cup viaRows
    IN IF T2 = T THEN T ELSE ReachBlocks(T2, dropped)

ReachableDatabases(dropped) == DatabasesUnder(ReachBlocks({Root}, dropped))

ReachablePages(dropped) ==
    LET T == ReachBlocks({Root}, dropped)
    IN {c \in Ids : \/ \E t \in T : c \in Listed(t) /\ kind[c] = "child_page"
                    \/ \E d \in DatabasesUnder(T) : c \in RowsOf(d, dropped)}

\* The root is listed among the children of a page that the scan reaches.
CycleThroughRoot ==
    \E x \in Ids \ {Root} :
        /\ kind[x] = "child_page"
        /\ <<Root, x>> \in edges
        /\ <<x, Root>> \in edges

\* Every turn of the scan pops one queue entry (the last turn returns), and
\* a queue entry is the root or comes from one link of the workspace, which
\* is pushed at most twice: as a child page and as a block with children.
TurnBound == 2 + 2 * Cardinality(edges)

\* C1: _scan_workspace terminates on every finite workspace graph, cyclic
\* ones included: the number of turns its loops take never exceeds a bound
\* fixed by the size of the graph, a scan that has not ended has turns left,
\* and on return no page id has more than one entry in the pages catalog
\* while every page found has exactly one.
C1_ScanTerminatesPagesOnce ==
    /\ turns <= TurnBound
    /\ pc = "scan" => turns < TurnBound
    /\ pc = "done" =>
          /\ \A x \in Ids : Occurrences(pages, x) <= 1
          /\ \A x \in ReachablePages(skipped) : Occurrences(pages, x) = 1

C1_Witness ==
    /\ pc = "done"
    /\ CycleThroughRoot
    /\ \E x \in Ids \ {Root} :
          /\ <<x, Root>> \in edges
          /\ Occurrences(pages, x) = 1
          /\ Occurrences(pages, Root) = 1

\* C2: within one scan the children of a block id are listed at most once
\* and the rows of a database id are queried at most once.
C2_FetchedAtMostOnce ==
    \A i \in Ids : listed[i] <= 1 /\ queried[i] <= 1

\* A database shown by the listings of two blocks and queried once, and a
\* child page pushed twice by one listing (as a page and as a block with
\* children) and listed once.
C2_Witness ==
    /\ pc = "done"
    /\ \E d \in Keys(databases) :
          /\ Cardinality({t \in seen_block_ids : d \in Listed(t)}) >= 2
          /\ queried[d] = 1
    /\ \E c \in Keys(pages) :
          /\ kind[c] = "child_page"
          /\ ChildIds(c) # {}
          /\ listed[c] = 1

\* C3: a row query refused with 403 or 404 does not fail the scan; the
\* database stays in the databases catalog, its rows are not catalogued by
\* that query, and everything else that is reachable is still catalogued.
C3_InaccessibleDatabaseContained ==
    /\ (pc = "failed" /\ FailEndpoint = "query") => exc \notin {403, 404}
    /\ skipped \subseteq Keys(databases)
    /\ (pc = "done" /\ skipped # {}) =>
          /\ Keys(databases) = ReachableDatabases(skipped)
          /\ Keys(pages) = ReachablePages(skipped)
          /\ \A i \in ReachBlocks({Root}, skipped) : listed[i] = 1
          /\ \A d \in ReachableDatabases(skipped) : queried[d] = 1

\* The scan has returned although the query of a database with rows on two
\* result pages was refused on the second one.
C3_Witness ==
    /\ pc = "done"
    /\ FailId \in skipped
    /\ failStatus \in {403, 404}
    /\ Cardinality(ChildIds(FailId)) >= 2
    /\ ChildIds(FailId) \cap Keys(pages) = {}

\* C4: when no request fails, the catalogs are exactly the reachable child
\* databases and the reachable child pages and database rows.
C4_CatalogsAreReachableSet ==
    (pc = "done" /\ skipped = {}) =>
        /\ Keys(databases) = ReachableDatabases({})
        /\ Keys(pages) = ReachablePages({})

\* A scan that went through a child page, a flagged block and a database
\* row, and left a block out that nothing leads to.
C4_Witness ==
    /\ pc = "done"
    /\ skipped = {}
    /\ databases # <<>>
    /\ \E d \in Keys(databases) : ChildIds(d) # {}
    /\ \E b \in seen_block_ids : kind[b] = "toggle"
    /\ Keys(pages) \cup Keys(databases) \cup {Root} # Ids


(***************************************************************************)
(* Part 2: the property mappers and the write operations that use them.    *)
(* Text that the code parses (option names, dates, ids) is a sequence of   *)
(* one-character strings; a Python value is a record                       *)
(*   [k: its type, n: int value / truth value / number of dict keys,       *)
(*    frac: first decimal of a float, s: text of a str / start of a date   *)
(*    dict, items: elements of a list].                                    *)
(***************************************************************************)

\* ------------------------------------------------------------------ bounds
\* Longest list given as a property value.
MaxListLen == 2

\* ---------------------------------------------------------- Python values
PyNone == [k |-> "none", n |-> 0, frac |-> 0, s |-> <<>>, items |-> <<>>]
PyStrVal(t) == [k |-> "str", n |-> 0, frac |-> 0, s |-> t, items |-> <<>>]
PyInt(i) == [k |-> "int", n |-> i, frac |-> 0, s |-> <<>>, items |-> <<>>]
PyFloat(i, f) == [k |-> "float", n |-> i, frac |-> f, s |-> <<>>, items |-> <<>>]
PyBoolVal(b) == [k |-> "bool", n |-> IF b THEN 1 ELSE 0, frac |-> 0, s |-> <<>>, items |-> <<>>]
PyList(xs) == [k |-> "list", n |-> 0, frac |-> 0, s |-> <<>>, items |-> xs]
\* {} and {"start": t}
PyEmptyDict == [k |-> "dict", n |-> 0, frac |-> 0, s |-> <<>>, items |-> <<>>]
PyDateDict(t) == [k |-> "dict", n |-> 1, frac |-> 0, s |-> t, items |-> <<>>]

DigitChars == <<"0", "1", "2", "3", "4", "5", "6", "7", "8", "9">>
IsDigit(c) == \E i \in 1..Len(DigitChars) : DigitChars[i] = c
\* The whitespace str.strip() removes, as far as the inputs have it.
IsSpace(c) == c \in {" ", "\t", "\n"}

\* str() of a non-negative int.
RECURSIVE DecimalText(_)
DecimalText(i) ==
    IF i < 10 THEN <<DigitChars[i + 1]>>
    ELSE DecimalText(i \div 10) \o <<DigitChars[(i % 10) + 1]>>

\* repr() of a str without quotes or backslashes in it.
ReprText(t) == <<"'">> \o t \o <<"'">>

\* str() of a scalar, repr() of a str inside a container.
ScalarText(v, quoted) ==
    CASE v.k = "none" -> <<"N", "o", "n", "e">>
      [] v.k = "str" -> IF quoted THEN ReprText(v.s) ELSE v.s
      [] v.k = "int" -> DecimalText(v.n)
      [] v.k = "float" -> DecimalText(v.n) \o <<".">> \o DecimalText(v.frac)
      [] v.k = "bool" -> IF v.n = 1 THEN <<"T", "r", "u", "e">> ELSE <<"F", "a", "l", "s", "e">>
      [] OTHER -> <<>>

RECURSIVE JoinRepr(_, _)
JoinRepr(xs, i) ==
    IF i > Len(xs) THEN <<>>
    ELSE ScalarText(xs[i], TRUE)
         \o (IF i < Len(xs) THEN <<",", " ">> ELSE <<>>)
         \o JoinRepr(xs, i + 1)

\* Python's str(value).
PyStr(v) ==
    CASE v.k = "list" -> <<"[">> \o JoinRepr(v.items, 1) \o <<"]">>
      [] v.k = "dict" ->
            IF v.n = 0 THEN <<"{", "}">>
            ELSE <<"{", "'", "s", "t", "a", "r", "t", "'", ":", " ">> \o ReprText(v.s) \o <<"}">>
      [] OTHER -> ScalarText(v, FALSE)

\* Python's bool(value).
PyTruthy(v) ==
    CASE v.k = "none" -> FALSE
      [] v.k = "str" -> v.s # <<>>
      [] v.k \in {"int", "bool"} -> v.n # 0
      [] v.k = "float" -> v.n # 0 \/ v.frac # 0
      [] v.k = "list" -> v.items # <<>>
      [] v.k = "dict" -> v.n # 0

\* isinstance(value, (int, float)): bool is a subclass of int.
IsIntOrFloat(v) == v.k \in {"int", "float", "bool"}

\* str.strip() of whitespace.
RECURSIVE LStrip(_)
LStrip(t) == IF t # <<>> /\ IsSpace(Head(t)) THEN LStrip(Tail(t)) ELSE t

RECURSIVE RStrip(_)
RStrip(t) ==
    IF t # <<>> /\ IsSpace(t[Len(t)]) THEN RStrip(SubSeq(t, 1, Len(t) - 1)) ELSE t

Strip(t) == RStrip(LStrip(t))

\* re.fullmatch(r"\d{4}-\d{2}-\d{2}", text) is not None
MatchesDate(t) ==
    /\ Len(t) = 10
    /\ \A i \in {1, 2, 3, 4, 6, 7, 9, 10} : IsDigit(t[i])
    /\ t[5] = "-"
    /\ t[8] = "-"

\* `x in xs` for a list.
InSeq(x, xs) == \E i \in 1..Len(xs) : xs[i] = x


\* ------------------------------------------------- schemas and payloads
OptionTypes == {"select", "multi_select", "status"}

\* A property of a database schema, or a property of a page read as one:
\* `options` is what schema.get(type, {}).get("options", []) finds, and
\* `holder` the Python type of schema.get(type, {}) itself.
PropSchema(type, options) == [type |-> type, options |-> options, holder |-> "dict"]

\* Name-keyed dicts in insertion order: sequences of [name, value].
PropHas(dict, name) == \E i \in 1..Len(dict) : dict[i].name = name

PropIndex(dict, name) == CHOOSE i \in 1..Len(dict) : dict[i].name = name

PropGet(dict, name) == dict[PropIndex(dict, name)].value

\* dict[name] = value
PropPut(dict, name, value) ==
    IF PropHas(dict, name)
    THEN [dict EXCEPT ![PropIndex(dict, name)] = [name |-> name, value |-> value]]
    ELSE Append(dict, [name |-> name, value |-> value])

\* dict.update(other)
RECURSIVE PropUpdate(_, _)
PropUpdate(dict, other) ==
    IF other = <<>> THEN dict
    ELSE PropUpdate(PropPut(dict, Head(other).name, Head(other).value), Tail(other))

PropNames(dict) == {dict[i].name : i \in 1..Len(dict)}

\* A Notion property value {tag: ...}: `texts` are the names or contents it
\* carries, `raw` a Python value passed through as it came.
Payload(tag, texts, raw) == [tag |-> tag, texts |-> texts, raw |-> raw]

\* Python's None where a payload is expected.
NoPayload == Payload("none", <<>>, PyNone)

Mapped(payload) == [mapped |-> payload, error |-> "", raised |-> FALSE]

Rejected(reason) == [mapped |-> NoPayload, error |-> reason, raised |-> FALSE]

\* The call ends in an exception (an AttributeError: .get of a list).
Raises == [mapped |-> NoPayload, error |-> "", raised |-> TRUE]

ErrorEntry(name, reason, with_options, options) ==
    [property |-> name, reason |-> reason, with_options |-> with_options,
     options |-> options]

\* [str(item) for item in value]
StrEach(items) == [i \in 1..Len(items) |-> PyStr(items[i])]

\* ------------------------------------------------- strict mapper, main.py

\* Mutant: the options without a name are kept, as empty names.
extract_schema_options_KeepsUnnamed(schema, prop_type) ==
    [i \in 1..Len(schema.options) |-> schema.options[i].name]

\* _extract_schema_options
extract_schema_options(schema, prop_type) ==
    LET named == SelectSeq(schema.options, LAMBDA option : option.name # <<>>)
    IN [i \in 1..Len(named) |-> named[i].name]

\* _map_property_value_strict: returns (mapped, error).
map_property_value_strict(prop_schema, value) ==
    LET prop_type == prop_schema.type
        options == extract_schema_options(prop_schema, prop_type)
        text == PyStr(value)
    IN IF prop_type = "" THEN Rejected("missing_type")
       ELSE IF prop_type = "rollup" THEN Rejected("rollup_not_supported")
       ELSE IF prop_type \in OptionTypes /\ prop_schema.holder # "dict" THEN Raises
       ELSE IF prop_type \in OptionTypes /\ options = <<>>
            THEN Rejected("missing_options")
       ELSE IF prop_type = "select"
            THEN IF ~InSeq(text, options) THEN Rejected("invalid_option")
                 ELSE Mapped(Payload("select", <<text>>, PyNone))
       ELSE IF prop_type = "status"
            THEN IF ~InSeq(text, options) THEN Rejected("invalid_option")
                 ELSE Mapped(Payload("status", <<text>>, PyNone))
       ELSE IF prop_type = "multi_select"
            THEN IF value.k # "list" THEN Rejected("expected_list")
                 ELSE LET names == StrEach(value.items)
                          invalid == SelectSeq(names, LAMBDA name : ~InSeq(name, options))
                      IN IF invalid # <<>> THEN Rejected("invalid_option")
                         ELSE Mapped(Payload("multi_select", names, PyNone))
       ELSE IF prop_type = "title" THEN Mapped(Payload("title", <<text>>, PyNone))
       ELSE IF prop_type = "rich_text" THEN Mapped(Payload("rich_text", <<text>>, PyNone))
       ELSE IF prop_type = "checkbox"
            THEN Mapped(Payload("checkbox", <<>>, PyBoolVal(PyTruthy(value))))
       ELSE IF prop_type = "date"
            THEN IF ~MatchesDate(text) THEN Rejected("invalid_date")
                 ELSE Mapped(Payload("date", <<text>>, PyNone))
       ELSE IF prop_type = "number"
            THEN IF ~IsIntOrFloat(value) THEN Rejected("invalid_number")
                 ELSE Mapped(Payload("number", <<>>, value))
       ELSE IF prop_type = "relation"
            THEN IF value.k # "list" THEN Rejected("expected_list")
                 ELSE IF \E i \in 1..Len(value.items) :
                            value.items[i].k # "str" \/ Strip(value.items[i].s) = <<>>
                      THEN Rejected("invalid_relation_id")
                      ELSE Mapped(Payload("relation",
                                          [i \in 1..Len(value.items) |-> value.items[i].s],
                                          PyNone))
       ELSE IF prop_type = "url" THEN Mapped(Payload("url", <<text>>, PyNone))
       ELSE IF prop_type = "email" THEN Mapped(Payload("email", <<text>>, PyNone))
       ELSE IF prop_type = "phone_number"
            THEN Mapped(Payload("phone_number", <<text>>, PyNone))
       ELSE Rejected("unsupported_type")

\* Mutant: a property the schema does not have is skipped without an error.
MapOne_SkipsUnknown(schema_properties, name, value, acc) ==
    IF ~PropHas(schema_properties, name) THEN acc
    ELSE LET r == map_property_value_strict(PropGet(schema_properties, name), value)
         IN IF r.raised THEN [acc EXCEPT !.raised = TRUE]
            ELSE IF r.error # ""
            THEN [acc EXCEPT !.errors = Append(@, ErrorEntry(name, r.error, FALSE, <<>>))]
            ELSE [acc EXCEPT !.payload = PropPut(@, name, r.mapped)]

\* One turn of the loop of _map_properties_from_schema, on the entry (name, value).
MapOne(schema_properties, name, value, acc) ==
    IF ~PropHas(schema_properties, name)
    THEN [acc EXCEPT !.errors = Append(@, ErrorEntry(name, "unknown_property", FALSE, <<>>))]
    ELSE LET prop_schema == PropGet(schema_properties, name)
             r == map_property_value_strict(prop_schema, value)
         IN IF r.raised THEN [acc EXCEPT !.raised = TRUE]
            ELSE IF r.error # ""
            THEN LET with_options ==
                         /\ r.error \in {"invalid_option", "missing_options"}
                         /\ prop_schema.type \in OptionTypes
                     entry == ErrorEntry(name, r.error, with_options,
                                 IF with_options
                                 THEN extract_schema_options(prop_schema, prop_schema.type)
                                 ELSE <<>>)
                 IN [acc EXCEPT !.errors = Append(@, entry)]
            ELSE IF r.mapped # NoPayload
                 THEN [acc EXCEPT !.payload = PropPut(@, name, r.mapped)]
                 ELSE acc

\* Mutant: the loop stops at the first rejected property.
RECURSIVE MapLoop_StopAtFirstError(_, _, _, _)
MapLoop_StopAtFirstError(schema_properties, input_properties, i, acc) ==
    IF i > Len(input_properties) \/ acc.raised \/ acc.errors # <<>> THEN acc
    ELSE MapLoop_StopAtFirstError(schema_properties, input_properties, i + 1,
                 MapOne(schema_properties, input_properties[i].name,
                        input_properties[i].value, acc))

\* The loop of _map_properties_from_schema over input_properties.items(), from entry i on.
RECURSIVE MapLoop(_, _, _, _)
MapLoop(schema_properties, input_properties, i, acc) ==
    IF i > Len(input_properties) \/ acc.raised THEN acc
    ELSE MapLoop(schema_properties, input_properties, i + 1,
                 MapOne(schema_properties, input_properties[i].name,
                        input_properties[i].value, acc))

\* _map_properties_from_schema: returns (payload, errors).
map_properties_from_schema(schema_properties, input_properties) ==
    MapLoop(schema_properties, input_properties, 1,
            [payload |-> <<>>, errors |-> <<>>, raised |-> FALSE])

\* ----------------------------------------- strict mapper, notion_writer.py

\* notion_writer._extract_schema_options
nw_extract_schema_options(schema, prop_type) ==
    LET named == SelectSeq(schema.options, LAMBDA option : option.name # <<>>)
    IN [i \in 1..Len(named) |-> named[i].name]

\* notion_writer._map_property_value_strict: returns (mapped, error).
nw_map_property_value_strict(prop_schema, value) ==
    LET prop_type == prop_schema.type
        options == nw_extract_schema_options(prop_schema, prop_type)
        text == PyStr(value)
    IN IF prop_type = "" THEN Rejected("missing_type")
       ELSE IF prop_type = "rollup" THEN Rejected("rollup_not_supported")
       ELSE IF prop_type \in OptionTypes /\ prop_schema.holder # "dict" THEN Raises
       ELSE IF prop_type \in OptionTypes /\ options = <<>>
            THEN Rejected("missing_options")
       ELSE IF prop_type = "select"
            THEN IF ~InSeq(text, options) THEN Rejected("invalid_option")
                 ELSE Mapped(Payload("select", <<text>>, PyNone))
       ELSE IF prop_type = "status"
            THEN IF ~InSeq(text, options) THEN Rejected("invalid_option")
                 ELSE Mapped(Payload("status", <<text>>, PyNone))
       ELSE IF prop_type = "multi_select"
            THEN IF value.k # "list" THEN Rejected("expected_list")
                 ELSE LET names == StrEach(value.items)
                          invalid == SelectSeq(names, LAMBDA name : ~InSeq(name, options))
                      IN IF invalid # <<>> THEN Rejected("invalid_option")
                         ELSE Mapped(Payload("multi_select", names, PyNone))
       ELSE IF prop_type = "title" THEN Mapped(Payload("title", <<text>>, PyNone))
       ELSE IF prop_type = "rich_text" THEN Mapped(Payload("rich_text", <<text>>, PyNone))
       ELSE IF prop_type = "checkbox"
            THEN Mapped(Payload("checkbox", <<>>, PyBoolVal(PyTruthy(value))))
       ELSE IF prop_type = "date"
            THEN IF ~MatchesDate(text) THEN Rejected("invalid_date")
                 ELSE Mapped(Payload("date", <<text>>, PyNone))
       ELSE IF prop_type = "number"
            THEN IF ~IsIntOrFloat(value) THEN Rejected("invalid_number")
                 ELSE Mapped(Payload("number", <<>>, value))
       ELSE IF prop_type = "relation"
            THEN IF value.k # "list" THEN Rejected("expected_list")
                 ELSE IF \E i \in 1..Len(value.items) :
                            value.items[i].k # "str" \/ Strip(value.items[i].s) = <<>>
                      THEN Rejected("invalid_relation_id")
                      ELSE Mapped(Payload("relation",
                                          [i \in 1..Len(value.items) |-> value.items[i].s],
                                          PyNone))
       ELSE IF prop_type = "url" THEN Mapped(Payload("url", <<text>>, PyNone))
       ELSE IF prop_type = "email" THEN Mapped(Payload("email", <<text>>, PyNone))
       ELSE IF prop_type = "phone_number"
            THEN Mapped(Payload("phone_number", <<text>>, PyNone))
       ELSE Rejected("unsupported_type")

\* One turn of the loop of notion_writer._map_properties_from_schema, on the entry (name, value).
nw_MapOne(schema_properties, name, value, acc) ==
    IF ~PropHas(schema_properties, name)
    THEN [acc EXCEPT !.errors = Append(@, ErrorEntry(name, "unknown_property", FALSE, <<>>))]
    ELSE LET prop_schema == PropGet(schema_properties, name)
             r == nw_map_property_value_strict(prop_schema, value)
         IN IF r.raised THEN [acc EXCEPT !.raised = TRUE]
            ELSE IF r.error # ""
            THEN LET with_options ==
                         /\ r.error \in {"invalid_option", "missing_options"}
                         /\ prop_schema.type \in OptionTypes
                     entry == ErrorEntry(name, r.error, with_options,
                                 IF with_options
                                 THEN nw_extract_schema_options(prop_schema, prop_schema.type)
                                 ELSE <<>>)
                 IN [acc EXCEPT !.errors = Append(@, entry)]
            ELSE IF r.mapped # NoPayload
                 THEN [acc EXCEPT !.payload = PropPut(@, name, r.mapped)]
                 ELSE acc

\* The loop of notion_writer._map_properties_from_schema over input_properties.items(), from entry i on.
RECURSIVE nw_MapLoop(_, _, _, _)
nw_MapLoop(schema_properties, input_properties, i, acc) ==
    IF i > Len(input_properties) \/ acc.raised THEN acc
    ELSE nw_MapLoop(schema_properties, input_properties, i + 1,
                 nw_MapOne(schema_properties, input_properties[i].name,
                        input_properties[i].value, acc))

\* notion_writer._map_properties_from_schema: returns (payload, errors).
nw_map_properties_from_schema(schema_properties, input_properties) ==
    nw_MapLoop(schema_properties, input_properties, 1,
            [payload |-> <<>>, errors |-> <<>>, raised |-> FALSE])


\* ------------------------------------------------ lenient mapper, main.py
\* _map_property_value: the payload, or NoPayload for None.  `options` is
\* None or a list; only its truth value and its members are used, so None
\* is the empty sequence here.
map_property_value(prop_type, value, options) ==
    LET text == PyStr(value)
    IN IF value.k = "none" THEN NoPayload
       ELSE IF prop_type = "status"
            THEN IF options # <<>> /\ ~InSeq(text, options) THEN NoPayload
                 ELSE Payload("status", <<text>>, PyNone)
       ELSE IF prop_type = "select"
            THEN IF options # <<>> /\ ~InSeq(text, options) THEN NoPayload
                 ELSE Payload("select", <<text>>, PyNone)
       ELSE IF prop_type = "multi_select"
            THEN LET given == IF value.k = "list" THEN StrEach(value.items) ELSE <<text>>
                     names == IF options # <<>>
                              THEN SelectSeq(given, LAMBDA name : InSeq(name, options))
                              ELSE given
                 IN IF names = <<>> THEN NoPayload
                    ELSE Payload("multi_select", names, PyNone)
       ELSE IF prop_type = "checkbox"
            THEN Payload("checkbox", <<>>,
                         IF value.k = "bool" THEN value ELSE PyBoolVal(PyTruthy(value)))
       ELSE IF prop_type = "date"
            THEN IF value.k = "dict" THEN Payload("date", <<>>, value)
                 ELSE IF ~MatchesDate(text) THEN NoPayload
                 ELSE Payload("date", <<text>>, PyNone)
       ELSE IF prop_type = "number" THEN Payload("number", <<>>, value)
       ELSE IF prop_type = "rich_text" THEN Payload("rich_text", <<text>>, PyNone)
       ELSE IF prop_type = "title" THEN Payload("title", <<text>>, PyNone)
       ELSE IF prop_type = "url" THEN Payload("url", <<text>>, PyNone)
       ELSE IF prop_type = "email" THEN Payload("email", <<text>>, PyNone)
       ELSE IF prop_type = "phone_number" THEN Payload("phone_number", <<text>>, PyNone)
       ELSE NoPayload

\* One turn of the loop of _build_property_payload.  schema.get(type, {})
\* of a list has no .get: the AttributeError ends the loop (raised).
BuildOne(schema_properties, name, value, acc) ==
    IF ~PropHas(schema_properties, name)
    THEN [acc EXCEPT !.rejected = Append(@, name)]
    ELSE LET schema == PropGet(schema_properties, name)
             prop_type == schema.type
         IN IF prop_type = "" THEN [acc EXCEPT !.rejected = Append(@, name)]
            ELSE IF prop_type \in OptionTypes /\ schema.holder # "dict"
                 THEN [acc EXCEPT !.raised = TRUE]
            ELSE LET options == IF prop_type \in OptionTypes
                                THEN extract_schema_options(schema, prop_type)
                                ELSE <<>>
                     mapped == map_property_value(prop_type, value, options)
                 IN IF mapped # NoPayload
                    THEN [acc EXCEPT !.payload = PropPut(@, name, mapped),
                                     !.accepted = Append(@, name)]
                    ELSE [acc EXCEPT !.rejected = Append(@, name)]

RECURSIVE BuildLoop(_, _, _, _)
BuildLoop(schema_properties, input_properties, i, acc) ==
    IF i > Len(input_properties) \/ acc.raised THEN acc
    ELSE BuildLoop(schema_properties, input_properties, i + 1,
                   BuildOne(schema_properties, input_properties[i].name,
                            input_properties[i].value, acc))

\* _build_property_payload: returns (payload, accepted, rejected), or raises.
build_property_payload(schema_properties, input_properties) ==
    BuildLoop(schema_properties, input_properties, 1,
              [payload |-> <<>>, accepted |-> <<>>, rejected |-> <<>>,
               raised |-> FALSE])


\* ----------------------------------- what the write operations are given
Opt1 == <<"o", "p", "t", "1">>
Opt2 == <<"o", "p", "t", "2">>
Bogus == <<"b", "o", "g", "u", "s">>
Three == <<"3">>
X == <<"x">>
Hello == <<"h", "e", "l", "l", "o">>
Blank == <<" ">>
DateOk == <<"2", "0", "2", "4", "-", "0", "1", "-", "1", "5">>
DateOutOfRange == <<"2", "0", "2", "4", "-", "1", "3", "-", "4", "0">>
DateShort == <<"2", "0", "2", "4", "-", "1", "-", "5">>
\* The title every create call is given.
Title == <<"T">>

\* The option lists a select, multi_select or status property may declare:
\* none, three names (one of them the text of a number), one without name.
OptionLists ==
    {<<>>, <<[name |-> Opt1], [name |-> Opt2], [name |-> Three]>>, <<[name |-> <<>>]>>}

\* The types without options: those the mappers know, one they do not
\* (formula) and a property without type.
PlainTypes ==
    {"title", "rich_text", "number", "checkbox", "date", "relation", "url",
     "email", "phone_number", "rollup", "formula", ""}

PropSchemas ==
    {PropSchema(t, <<>>) : t \in PlainTypes}
    \cup {PropSchema(t, o) : t \in OptionTypes, o \in OptionLists}

\* The "properties" of a database: A of any type, B a select with two
\* options, and the title property Name unless A is the title property.
DatabaseProperties(a) ==
    (IF a.type = "title" THEN <<>>
     ELSE <<[name |-> "Name", value |-> PropSchema("title", <<>>)]>>)
    \o <<[name |-> "A", value |-> a],
         [name |-> "B",
          value |-> PropSchema("select", <<[name |-> Opt1], [name |-> Opt2]>>)]>>

\* The "properties" of a page of that database, read as a schema: every
\* property has its type; the value under it is a list for a multi_select
\* and an object without "options" for a select or status that is set.
PageProperty(schema) ==
    [type |-> schema.type, options |-> <<>>,
     holder |-> IF schema.type \in {"multi_select", "relation", "title", "rich_text"}
                THEN "list" ELSE "dict"]

\* page.get("properties"): those of the database for a row, the single
\* property "title" for a page under a page.
PageProperties(database_properties, parent) ==
    IF parent = "database_id"
    THEN [i \in 1..Len(database_properties) |->
            [name |-> database_properties[i].name,
             value |-> PageProperty(database_properties[i].value)]]
    ELSE <<[name |-> "title", value |-> PageProperty(PropSchema("title", <<>>))]>>

ScalarValues ==
    {PyNone, PyInt(3), PyInt(0), PyFloat(1, 5), PyBoolVal(TRUE), PyBoolVal(FALSE),
     PyEmptyDict, PyDateDict(DateOk)}
    \cup {PyStrVal(t) : t \in {Opt1, Bogus, Three, Hello, <<>>, DateOk,
                               DateOutOfRange, DateShort}}

ListElements == {PyStrVal(Opt1), PyStrVal(Bogus), PyStrVal(Blank), PyInt(3)}

ListValues ==
    {PyList(xs) : xs \in UNION {[1..n -> ListElements] : n \in 0..MaxListLen}}

Values == ScalarValues \cup ListValues

\* A key the caller does not give.
Absent == [k |-> "absent", n |-> 0, frac |-> 0, s |-> <<>>, items |-> <<>>]

\* The dict {A: a, B: b, C: c} without the absent keys; C is in no schema.
InputProperties(a, b, c) ==
    SelectSeq(<<[name |-> "A", value |-> a], [name |-> "B", value |-> b],
                [name |-> "C", value |-> c]>>,
              LAMBDA entry : entry.value # Absent)

Inputs ==
    {InputProperties(a, b, c) :
        a \in Values \cup {Absent},
        b \in {PyStrVal(Opt1), PyStrVal(Bogus), Absent},
        c \in {PyStrVal(X), Absent}}


\* ------------------------------------------------------- write operations
\* Every operation below is one call with an id that passed validation;
\* Notion answers each request with 200.
Request(method, path, properties) ==
    [method |-> method, path |-> path, properties |-> properties, id |-> <<>>]

GetDatabase == Request("GET", "databases/{id}", <<>>)
GetPage == Request("GET", "pages/{id}", <<>>)

\* _get_database_title_property_from_schema, and _get_database_title_property
\* of notion_writer.py: the first title-typed property, "" where they raise.
get_database_title_property(properties) ==
    IF \E i \in 1..Len(properties) : properties[i].value.type = "title"
    THEN properties[CHOOSE i \in 1..Len(properties) :
                        /\ properties[i].value.type = "title"
                        /\ \A j \in 1..(i - 1) : properties[j].value.type # "title"].name
    ELSE ""

\* {title_property: {"title": [... title ...]}}
TitleOnly(title_property) ==
    <<[name |-> title_property, value |-> Payload("title", <<Title>>, PyNone)]>>

\* _get_database_schema_for_page, and the same lines of
\* update_page_properties: the requests sent and the schema used.
SchemaRequests == IF parent_type = "database_id" THEN <<GetPage, GetDatabase>> ELSE <<GetPage>>

SchemaForPage ==
    IF parent_type = "database_id" THEN db_schema
    ELSE PageProperties(db_schema, parent_type)

Call(name, sent, answer) ==
    /\ op = ""
    /\ op' = name
    /\ requests' = sent
    /\ reply' = answer
    /\ UNCHANGED <<db_schema, params_properties, parent_type, id_value, environ,
                   response, service>>
    /\ UNCHANGED scanVars

\* _map_properties_from_schema called on the database's properties.
MapPropertiesFromSchema ==
    LET r == map_properties_from_schema(db_schema, params_properties)
    IN Call("_map_properties_from_schema", <<>>,
            IF r.raised THEN Crashed
            ELSE Reply("returned", 0, "", r.payload, r.errors, <<>>))

\* notion_writer._map_properties_from_schema called the same way.
WriterMapPropertiesFromSchema ==
    LET r == nw_map_properties_from_schema(db_schema, params_properties)
    IN Call("notion_writer._map_properties_from_schema", <<>>,
            IF r.raised THEN Crashed
            ELSE Reply("returned", 0, "", r.payload, r.errors, <<>>))

\* _build_property_payload called on the database's properties.
BuildPropertyPayload ==
    LET r == build_property_payload(db_schema, params_properties)
    IN Call("_build_property_payload", <<>>,
            IF r.raised THEN Crashed
            ELSE Reply("returned", 0, "", r.payload, <<>>, r.rejected))

\* command, action page.create with a database_id.
CommandPageCreate ==
    LET r == map_properties_from_schema(db_schema, params_properties)
        title_property == get_database_title_property(db_schema)
        notion_properties == PropUpdate(TitleOnly(title_property), r.payload)
    IN IF r.raised THEN Call("page.create", <<GetDatabase>>, Crashed)
       ELSE IF r.errors # <<>>
       THEN Call("page.create", <<GetDatabase>>,
                 Reply("fail", 200, "Invalid properties payload", <<>>, r.errors, <<>>))
       ELSE IF title_property = ""
       THEN Call("page.create", <<GetDatabase>>,
                 Reply("fail", 200, "Command failed", <<>>, <<>>, <<>>))
       ELSE Call("page.create",
                 <<GetDatabase, Request("POST", "pages", notion_properties)>>,
                 Reply("ok", 200, "", notion_properties, <<>>, <<>>))

\* command, action page.update.
CommandPageUpdate ==
    LET r == map_properties_from_schema(SchemaForPage, params_properties)
    IN IF params_properties = <<>>
       THEN Call("page.update", <<>>,
                 Reply("fail", 200, "properties are required", <<>>, <<>>, <<>>))
       ELSE IF r.raised THEN Call("page.update", SchemaRequests, Crashed)
       ELSE IF r.errors # <<>>
       THEN Call("page.update", SchemaRequests,
                 Reply("fail", 200, "Invalid properties payload", <<>>, r.errors, <<>>))
       ELSE Call("page.update",
                 Append(SchemaRequests, Request("PATCH", "pages/{id}", r.payload)),
                 Reply("ok", 200, "", r.payload, <<>>, <<>>))

\* NotionWriter.create_page_in_database.
WriterCreatePageInDatabase ==
    LET title_property == get_database_title_property(db_schema)
        r == IF params_properties # <<>>
             THEN nw_map_properties_from_schema(db_schema, params_properties)
             ELSE [payload |-> <<>>, errors |-> <<>>, raised |-> FALSE]
        notion_properties == PropUpdate(TitleOnly(title_property), r.payload)
    IN IF title_property = ""
       THEN Call("create_page_in_database", <<GetDatabase>>,
                 Reply("raised", 500, "Database has no title property", <<>>, <<>>, <<>>))
       ELSE IF r.raised THEN Call("create_page_in_database", <<GetDatabase>>, Crashed)
       ELSE IF r.errors # <<>>
       THEN Call("create_page_in_database", <<GetDatabase>>,
                 Reply("raised", 400, "Invalid properties payload", <<>>, r.errors, <<>>))
       ELSE Call("create_page_in_database",
                 <<GetDatabase, Request("POST", "pages", notion_properties)>>,
                 Reply("ok", 200, "", notion_properties, <<>>, <<>>))

\* NotionWriter.update_page_properties.
WriterUpdatePageProperties ==
    LET r == nw_map_properties_from_schema(SchemaForPage, params_properties)
    IN IF r.raised THEN Call("update_page_properties", SchemaRequests, Crashed)
       ELSE IF r.errors # <<>>
       THEN Call("update_page_properties", SchemaRequests,
                 Reply("raised", 400, "Invalid properties payload", <<>>, r.errors, <<>>))
       ELSE Call("update_page_properties",
                 Append(SchemaRequests, Request("PATCH", "pages/{id}", r.payload)),
                 Reply("ok", 200, "", r.payload, <<>>, <<>>))

\* POST /write/database/{database_id}: write_database and
\* _create_page_in_database.
WriteDatabase ==
    LET title_property == get_database_title_property(db_schema)
        r == IF params_properties # <<>>
             THEN build_property_payload(db_schema, params_properties)
             ELSE [payload |-> <<>>, accepted |-> <<>>, rejected |-> <<>>,
                   raised |-> FALSE]
        payload_properties == PropUpdate(TitleOnly(title_property), r.payload)
    IN IF title_property = ""
       THEN Call("write_database", <<GetDatabase>>,
                 Reply("raised", 500, "Database has no title property", <<>>, <<>>, <<>>))
       ELSE IF r.raised
       THEN Call("write_database", <<GetDatabase>>,
                 Crashed)
       ELSE Call("write_database",
                 <<GetDatabase, Request("POST", "pages", payload_properties)>>,
                 Reply("ok", 200, "", payload_properties, <<>>, r.rejected))

\* PATCH /update/page/{page_id}: update_page.
UpdatePage ==
    LET r == build_property_payload(PageProperties(db_schema, parent_type),
                                    params_properties)
    IN IF r.raised
       THEN Call("update_page", <<GetPage>>,
                 Crashed)
       ELSE IF r.payload = <<>>
       THEN Call("update_page", <<GetPage>>,
                 Reply("raised", 400, "No valid properties to update", <<>>, <<>>,
                       r.rejected))
       ELSE Call("update_page",
                 <<GetPage, Request("PATCH", "pages/{id}", r.payload)>>,
                 Reply("ok", 200, "", r.payload, <<>>, r.rejected))

ParentTypes == {"database_id", "page_id"}

\* The scanner is not running while a write operation is called.
ScanIdle ==
    /\ kind = [i \in Ids |-> "child_page"]
    /\ edges = {}
    /\ failStatus = 200
    /\ block_queue = <<>>
    /\ seen_block_ids = {}
    /\ database_queue = <<>>
    /\ seen_database_pages = {}
    /\ databases = <<>>
    /\ pages = <<>>
    /\ pc = "idle"
    /\ exc = 0
    /\ listed = [i \in Ids |-> 0]
    /\ queried = [i \in Ids |-> 0]
    /\ skipped = {}
    /\ turns = 0

MapInit ==
    /\ ScanIdle
    /\ db_schema \in {DatabaseProperties(a) : a \in PropSchemas}
    /\ params_properties \in Inputs
    /\ parent_type \in ParentTypes
    /\ id_value = <<>>
    /\ environ = <<>>
    /\ response = <<>>
    /\ service = "serving"
    /\ op = ""
    /\ requests = <<>>
    /\ reply = NoReply

MapNext ==
    \/ MapPropertiesFromSchema
    \/ WriterMapPropertiesFromSchema
    \/ BuildPropertyPayload
    \/ CommandPageCreate
    \/ CommandPageUpdate
    \/ WriterCreatePageInDatabase
    \/ WriterUpdatePageProperties
    \/ WriteDatabase
    \/ UpdatePage

MapSpec == MapInit /\ [][MapNext]_vars


\* ------------------------------------------------------------ id validation
\* {32,36} of the pattern of the three validators.
MinIdLen == 32
MaxIdLen == 36
\* The number of hex digits uuid.UUID wants.
UuidHexLen == 32

LowerHex == <<"a", "b", "c", "d", "e", "f">>
UpperHex == <<"A", "B", "C", "D", "E", "F">>

IsHex(c) ==
    \/ IsDigit(c)
    \/ \E i \in 1..Len(LowerHex) : LowerHex[i] = c \/ UpperHex[i] = c

\* re.fullmatch(r"[0-9a-fA-F-]{32,36}", text) is not None
MatchesIdPattern(t) ==
    /\ Len(t) >= MinIdLen
    /\ Len(t) <= MaxIdLen
    /\ \A i \in 1..Len(t) : IsHex(t[i]) \/ t[i] = "-"

\* text.replace("-", "")
RemoveHyphens(t) == SelectSeq(t, LAMBDA c : c # "-")

\* uuid.UUID(text) does not raise ValueError, for a text of hex digits and
\* hyphens: it wants 32 characters that int(text, 16) reads.
UuidParses(t) == Len(t) = UuidHexLen /\ \A i \in 1..Len(t) : IsHex(t[i])

\* What a validator did: "returned" the candidate, "raised" a 400
\* (HTTPException or NotionAPIError), or ended in another exception
\* ("crash": a value that is not a str has no .strip).
Validation(how, code, candidate) == [kind |-> how, code |-> code, candidate |-> candidate]

\* _validate_page_id: strip, the pattern [0-9a-fA-F-]{32,36}, then uuid.UUID of the
\* text without hyphens; returns the stripped text as it is.
validate_page_id(page_id) ==
    IF page_id.k # "str" THEN Validation("crash", 0, <<>>)
    ELSE LET candidate == Strip(page_id.s)
         IN IF candidate = <<>> THEN Validation("raised", 400, <<>>)
            ELSE IF ~MatchesIdPattern(candidate) THEN Validation("raised", 400, <<>>)
            ELSE IF ~UuidParses(RemoveHyphens(candidate))
                 THEN Validation("raised", 400, <<>>)
            ELSE Validation("returned", 0, candidate)

\* _validate_database_id: strip, the pattern [0-9a-fA-F-]{32,36}, then uuid.UUID of the
\* text without hyphens; returns the stripped text as it is.
validate_database_id(database_id) ==
    IF database_id.k # "str" THEN Validation("crash", 0, <<>>)
    ELSE LET candidate == Strip(database_id.s)
         IN IF candidate = <<>> THEN Validation("raised", 400, <<>>)
            ELSE IF ~MatchesIdPattern(candidate) THEN Validation("raised", 400, <<>>)
            ELSE IF ~UuidParses(RemoveHyphens(candidate))
                 THEN Validation("raised", 400, <<>>)
            ELSE Validation("returned", 0, candidate)

\* notion_writer._validate_uuid: strip, the pattern [0-9a-fA-F-]{32,36}, then uuid.UUID of the
\* text without hyphens; returns the stripped text as it is.
validate_uuid(field_name, value) ==
    IF value.k # "str" THEN Validation("crash", 0, <<>>)
    ELSE LET candidate == Strip(value.s)
         IN IF candidate = <<>> THEN Validation("raised", 400, <<>>)
            ELSE IF ~MatchesIdPattern(candidate) THEN Validation("raised", 400, <<>>)
            ELSE IF ~UuidParses(RemoveHyphens(candidate))
                 THEN Validation("raised", 400, <<>>)
            ELSE Validation("returned", 0, candidate)


\* -------------------------------------------- the ids the callers give
\* n hex digits: 0, 1, ... 9, a, ... f and again, in lower or upper case.
HexRun(n, letters) ==
    [i \in 1..n |-> (DigitChars \o letters)[((i - 1) % 16) + 1]]

\* The 8-4-4-4-12 form.
Hyphenated(letters) ==
    LET h == HexRun(UuidHexLen, letters)
    IN SubSeq(h, 1, 8) \o <<"-">> \o SubSeq(h, 9, 12) \o <<"-">>
       \o SubSeq(h, 13, 16) \o <<"-">> \o SubSeq(h, 17, 20) \o <<"-">>
       \o SubSeq(h, 21, 32)

\* The start of the URL of a page in the Notion application.
NotionUrl == <<"h", "t", "t", "p", "s", ":", "/", "/", "w", "w", "w", ".", "n", "o", "t", "i", "o", "n", ".", "s", "o", "/">>

IdTexts ==
    {Hyphenated(LowerHex), Hyphenated(UpperHex),
     HexRun(UuidHexLen, LowerHex),
     HexRun(UuidHexLen - 1, LowerHex),
     HexRun(UuidHexLen + 1, LowerHex),
     HexRun(MaxIdLen, LowerHex),
     HexRun(MaxIdLen + 1, LowerHex),
     <<"-", "-", "-", "-">> \o HexRun(UuidHexLen, LowerHex),
     [i \in 1..MinIdLen |-> "-"],
     HexRun(UuidHexLen - 1, LowerHex) \o <<"g">>,
     HexRun(16, LowerHex) \o <<" ">> \o HexRun(16, LowerHex),
     <<".", ".", "/", "d", "a", "t", "a", "b", "a", "s", "e", "s">>,
     NotionUrl \o HexRun(UuidHexLen, LowerHex),
     <<"1", "2", "3">>,
     <<>>}

Paddings == {<<>>, <<" ">>, <<"\n">>}

\* The JSON values a caller may give as an id: strings, also padded with
\* whitespace, and values that are not strings.
IdValues ==
    {PyStrVal(before \o t \o after) :
        before \in Paddings, t \in IdTexts, after \in Paddings}
    \cup {PyNone, PyInt(123), PyInt(0), PyFloat(1, 5), PyBoolVal(TRUE),
          PyList(<<>>), PyList(<<PyStrVal(Hyphenated(LowerHex))>>), PyEmptyDict}

\* params.get(key, default)
ParamOr(value, default) == IF value = Absent THEN default ELSE value

\* A request whose URL holds the id.
RequestTo(method, path, id) ==
    [method |-> method, path |-> path, properties |-> <<>>, id |-> id]

\* Notion answers 200 to a request on an id it can read as a UUID, and 400
\* to one on any other text.
NotionStatus(id) ==
    IF UuidParses(RemoveHyphens(id))
       /\ \A i \in 1..Len(id) : IsHex(id[i]) \/ id[i] = "-"
    THEN 200 ELSE 400

\* fail("Command failed", {"detail": exc.detail}) of `except HTTPException`.
CommandFailed == Reply("fail", 200, "Command failed", <<>>, <<>>, <<>>)

\* A route handler, or a method of NotionWriter, validates the id it is
\* called with; these are str by declaration.
ValidatePageId ==
    /\ id_value # Absent
    /\ id_value.k = "str"
    /\ LET v == validate_page_id(id_value)
       IN Call("_validate_page_id", <<>>,
               Reply(v.kind, v.code, "", v.candidate, <<>>, <<>>))

ValidateDatabaseId ==
    /\ id_value # Absent
    /\ id_value.k = "str"
    /\ LET v == validate_database_id(id_value)
       IN Call("_validate_database_id", <<>>,
               Reply(v.kind, v.code, "", v.candidate, <<>>, <<>>))

ValidateUuid ==
    /\ id_value # Absent
    /\ id_value.k = "str"
    /\ LET v == validate_uuid("page_id", id_value)
       IN Call("_validate_uuid", <<>>,
               Reply(v.kind, v.code, "", v.candidate, <<>>, <<>>))

\* What command does with the outcome v of a validation: an HTTPException is
\* caught, any other exception escapes, else the requests are sent.
AfterValidation(name, v, sent) ==
    IF v.kind = "crash" THEN Call(name, <<>>, Crashed)
    ELSE IF v.kind = "raised" THEN Call(name, <<>>, CommandFailed)
    ELSE Call(name, sent, Reply("ok", 200, "", v.candidate, <<>>, <<>>))

\* command, action page.read with params {"page_id": id_value}.
CommandPageRead ==
    LET v == validate_page_id(ParamOr(id_value, PyStrVal(<<>>)))
    IN AfterValidation("page.read", v,
           <<RequestTo("GET", "pages/{id}", v.candidate),
             RequestTo("GET", "blocks/{id}/children", v.candidate)>>)

\* command, action page.delete with params {"page_id": id_value}.
CommandPageDelete ==
    LET v == validate_page_id(ParamOr(id_value, PyStrVal(<<>>)))
    IN AfterValidation("page.delete", v,
           <<RequestTo("PATCH", "pages/{id}", v.candidate)>>)

\* command, action db.schema with params {"database_id": id_value}.
CommandDbSchema ==
    LET v == validate_database_id(ParamOr(id_value, PyStrVal(<<>>)))
    IN AfterValidation("db.schema", v,
           <<RequestTo("GET", "databases/{id}", v.candidate)>>)

\* command, action db.create with params {"parent_page_id": id_value} and a
\* title and properties: the id is validated as str(parent_page_id).
CommandDbCreate ==
    LET parent_page_id == ParamOr(id_value, PyNone)
        v == validate_page_id(PyStrVal(PyStr(parent_page_id)))
    IN IF ~PyTruthy(parent_page_id)
       THEN Call("db.create", <<>>,
                 Reply("fail", 200, "parent_page_id, title, and properties are required",
                       <<>>, <<>>, <<>>))
       ELSE AfterValidation("db.create", v,
                <<[RequestTo("POST", "databases", <<>>) EXCEPT !.properties = v.candidate]>>)

\* command, action block.delete with params {"block_ids": [id_value]}, and
\* _delete_blocks: the id goes into the URL as str(block_id).
CommandBlockDelete ==
    LET block_id == PyStr(id_value)
    IN IF id_value = Absent
       THEN Call("block.delete", <<>>,
                 Reply("fail", 200, "block_ids must be a non-empty list",
                       <<>>, <<>>, <<>>))
       ELSE IF block_id = <<>> THEN Call("block.delete", <<>>, CommandFailed)
       ELSE IF ~ResponseOk(NotionStatus(block_id))
       THEN Call("block.delete", <<RequestTo("DELETE", "blocks/{id}", block_id)>>,
                 CommandFailed)
       ELSE Call("block.delete", <<RequestTo("DELETE", "blocks/{id}", block_id)>>,
                 Reply("ok", 200, "", block_id, <<>>, <<>>))

\* The actions command knows, as its answer to any other lists them.
SupportedActions ==
    <<"page.read", "page.create", "page.update", "page.delete", "db.list",
      "db.schema", "db.query", "db.create", "db.update", "nav.children",
      "block.append", "block.replace", "block.delete">>

\* Actions a caller may name that command does not know.
UnknownActions == {"page.move", "PAGE.READ", "db.delete"}

\* command with an action that matches none of its branches.
CommandUnsupported ==
    \E action \in UnknownActions :
        Call(action, <<>>,
             Reply("fail", 200, "Unsupported action", SupportedActions, <<>>, <<>>))

IdInit ==
    /\ ScanIdle
    /\ db_schema = <<>>
    /\ params_properties = <<>>
    /\ parent_type = ""
    /\ id_value \in IdValues \cup {Absent}
    /\ environ = <<>>
    /\ response = <<>>
    /\ service = "serving"
    /\ op = ""
    /\ requests = <<>>
    /\ reply = NoReply

IdNext ==
    \/ ValidatePageId
    \/ ValidateDatabaseId
    \/ ValidateUuid
    \/ CommandPageRead
    \/ CommandPageDelete
    \/ CommandDbSchema
    \/ CommandDbCreate
    \/ CommandBlockDelete
    \/ CommandUnsupported

IdSpec == IdInit /\ [][IdNext]_vars

\* --------------------------------- claims on the mappers and the writes
WriteOps ==
    {"page.create", "page.update", "create_page_in_database",
     "update_page_properties", "write_database", "update_page"}

StrictMapperCalls ==
    {"_map_properties_from_schema", "notion_writer._map_properties_from_schema"}

\* The requests of the call that change something in Notion.
Mutations == {i \in 1..Len(requests) : requests[i].method \in {"POST", "PATCH"}}

\* The schema the called operation hands to its mapper.
SchemaUsed ==
    IF op \in {"page.update", "update_page_properties"} THEN SchemaForPage
    ELSE IF op = "update_page" THEN PageProperties(db_schema, parent_type)
    ELSE db_schema

\* The names the mapper of the called operation rejects.
RejectedNames ==
    IF op \in {"write_database", "update_page", "_build_property_payload"}
    THEN LET r == build_property_payload(SchemaUsed, params_properties)
         IN {r.rejected[i] : i \in 1..Len(r.rejected)}
    ELSE LET r == map_properties_from_schema(SchemaUsed, params_properties)
         IN {r.errors[i].property : i \in 1..Len(r.errors)}

\* C5: in every write operation that maps the caller's properties, when the
\* mapper rejects one of them no POST or PATCH is sent and the caller gets a
\* structured rejection (a failure body or a 400).
C5_RejectionSendsNothing ==
    (op \in WriteOps /\ RejectedNames # {}) =>
        /\ Mutations = {}
        /\ \/ reply.kind = "fail"
           \/ reply.kind = "raised" /\ reply.code = 400

\* The number of error entries about a key.
ErrorsAbout(errors, name) ==
    Cardinality({i \in 1..Len(errors) : errors[i].property = name})

\* The entry of params_properties called name, submitted alone.
Alone(name) ==
    map_properties_from_schema(db_schema,
        SelectSeq(params_properties, LAMBDA entry : entry.name = name))

\* C6: _map_properties_from_schema treats each key on its own: a key the
\* schema lacks is reported unknown_property, a key with an invalid value is
\* reported with the error it gets alone, and every other key is mapped
\* exactly as it is alone.
C6_KeysMappedIndependently ==
    op \in StrictMapperCalls =>
        /\ reply.kind = "returned"
        /\ \A name \in PropNames(params_properties) :
              /\ ~PropHas(db_schema, name) =>
                    \E i \in 1..Len(reply.errors) :
                        /\ reply.errors[i].property = name
                        /\ reply.errors[i].reason = "unknown_property"
              /\ Alone(name).errors # <<>> =>
                    /\ InSeq(Alone(name).errors[1], reply.errors)
                    /\ ~PropHas(reply.payload, name)
              /\ Alone(name).payload # <<>> =>
                    /\ PropHas(reply.payload, name)
                    /\ PropGet(reply.payload, name) = PropGet(Alone(name).payload, name)
                    /\ ErrorsAbout(reply.errors, name) = 0

\* The example of C6: schema {A: title, B: select[opt1, opt2]} with input
\* {A: hello, B: bogus, C: x} maps A and reports B and C.
C6_Witness ==
    /\ op \in StrictMapperCalls
    /\ db_schema = DatabaseProperties(PropSchema("title", <<>>))
    /\ params_properties
         = InputProperties(PyStrVal(Hello), PyStrVal(Bogus), PyStrVal(X))
    /\ reply.payload = <<[name |-> "A", value |-> Payload("title", <<Hello>>, PyNone)]>>
    /\ reply.errors
         = <<ErrorEntry("B", "invalid_option", TRUE, <<Opt1, Opt2>>),
             ErrorEntry("C", "unknown_property", FALSE, <<>>)>>

\* The schema of property A, and what the caller gives for it.
SchemaOfA == PropGet(SchemaUsed, "A")

GivenForA == PropGet(params_properties, "A")

\* A is a multi_select with options and is given a list of which some
\* element, as a string, is not an option.
MultiSelectWithInvalidName ==
    /\ PropHas(params_properties, "A")
    /\ PropHas(SchemaUsed, "A")
    /\ SchemaOfA.type = "multi_select"
    /\ SchemaOfA.holder = "dict"
    /\ extract_schema_options(SchemaOfA, "multi_select") # <<>>
    /\ GivenForA.k = "list"
    /\ \E i \in 1..Len(GivenForA.items) :
          ~InSeq(PyStr(GivenForA.items[i]),
                 extract_schema_options(SchemaOfA, "multi_select"))

\* C7: a multi_select with an invalid name is rejected whole by every
\* mapper that feeds a write: it is never mapped to the valid names only.
C7_MultiSelectAllOrNothing ==
    (op # "" /\ MultiSelectWithInvalidName) =>
        /\ ~PropHas(reply.payload, "A")
        /\ \A i \in Mutations : ~PropHas(requests[i].properties, "A")
        /\ op \in StrictMapperCalls =>
              \E i \in 1..Len(reply.errors) :
                  /\ reply.errors[i].property = "A"
                  /\ reply.errors[i].reason = "invalid_option"

\* C8: _map_properties_from_schema never raises, whatever the values; each
\* problem is an entry of errors with a property and a reason, and each key
\* is in exactly one of the mapped result and the errors.
C8_EveryKeyMappedOrReported ==
    /\ op \in StrictMapperCalls =>
          /\ reply.kind = "returned"
          /\ \A i \in 1..Len(reply.errors) :
                /\ reply.errors[i].property \in PropNames(params_properties)
                /\ reply.errors[i].reason # ""
          /\ PropNames(reply.payload) \subseteq PropNames(params_properties)
          /\ \A name \in PropNames(params_properties) :
                \/ PropHas(reply.payload, name) /\ ErrorsAbout(reply.errors, name) = 0
                \/ ~PropHas(reply.payload, name) /\ ErrorsAbout(reply.errors, name) = 1
    /\ op \in {"page.create", "page.update", "create_page_in_database",
                "update_page_properties"} => reply.kind # "crash"

\* A dict for a multi_select and two more keys: one mapped, two reported.
C8_Witness ==
    /\ op \in StrictMapperCalls
    /\ PropHas(params_properties, "A")
    /\ GivenForA.k = "dict"
    /\ PropGet(db_schema, "A").type = "multi_select"
    /\ PropNames(reply.payload) = {"B"}
    /\ {reply.errors[i].property : i \in 1..Len(reply.errors)} = {"A", "C"}


\* ------------------------------------------------ claims on the titles
\* The text of the first property of the given type that has text, or "".
RECURSIVE FirstTextOfType(_, _, _)
FirstTextOfType(properties, type, i) ==
    IF i > Len(properties) THEN ""
    ELSE IF properties[i].type = type /\ extract_plain_text(properties[i].parts) # ""
         THEN extract_plain_text(properties[i].parts)
         ELSE FirstTextOfType(properties, type, i + 1)

\* The title the chain of C9 gives.
ChainTitle(properties) ==
    LET n == NameIndex(properties)
    IN IF n # 0 /\ properties[n].type = "title"
          /\ extract_plain_text(properties[n].parts) # ""
       THEN extract_plain_text(properties[n].parts)
       ELSE StrOr(FirstTextOfType(properties, "title", 1),
                  StrOr(FirstTextOfType(properties, "rich_text", 1), "Untitled"))

\* C9: the title of a database row in the catalog follows the whole chain:
\* Name if it is a title with text, else the first title with text, else the
\* first rich_text with text, else Untitled; a row with only a rich_text
\* property is catalogued under that text.
C9_TitleFallbackChain ==
    \A i \in 1..Len(pages) :
        pages[i].parent.type = "database_id" =>
            pages[i].title = ChainTitle(RowProperties(pages[i].id))

\* --------------------------------------------------- claims on the ids
IdOps ==
    {"_validate_page_id", "_validate_database_id", "_validate_uuid", "page.read",
     "page.delete", "db.schema", "db.create", "block.delete"}

\* A text that reads as a UUID: hex digits and hyphens, 32 digits in all.
ReadsAsUuid(t) ==
    /\ \A i \in 1..Len(t) : IsHex(t[i]) \/ t[i] = "-"
    /\ Len(RemoveHyphens(t)) = 32

\* C10: whatever id a caller gives, a string or any other JSON value, the
\* operation either accepts it or answers with a 400 rejection; no other
\* exception escapes and no malformed id is put into a request URL.
C10_IdAcceptedOrRejected ==
    op \in IdOps =>
        /\ reply.kind # "crash"
        /\ reply.kind = "raised" => reply.code = 400
        /\ \A i \in 1..Len(requests) :
              requests[i].id # <<>> => ReadsAsUuid(requests[i].id)


\* str.lower() of a hex digit.
LowerOf(c) ==
    IF \E i \in 1..Len(UpperHex) : UpperHex[i] = c
    THEN LowerHex[CHOOSE i \in 1..Len(UpperHex) : UpperHex[i] = c]
    ELSE c

\* The lowercase 8-4-4-4-12 form of a text that reads as a UUID.
CanonicalForm(t) ==
    LET digits == RemoveHyphens(t)
        h == [i \in 1..Len(digits) |-> LowerOf(digits[i])]
    IN SubSeq(h, 1, 8) \o <<"-">> \o SubSeq(h, 9, 12) \o <<"-">>
       \o SubSeq(h, 13, 16) \o <<"-">> \o SubSeq(h, 17, 20) \o <<"-">>
       \o SubSeq(h, 21, 32)

\* The operations that validate the id before they put it into a URL.
ValidatingOps == {"page.read", "page.delete", "db.schema"}

\* C11: an id that passed validation appears in the request URLs in the
\* lowercase 8-4-4-4-12 form, however it was written by the caller.
C11_UrlsHoldCanonicalIds ==
    op \in ValidatingOps =>
        \A i \in 1..Len(requests) :
            requests[i].id = CanonicalForm(requests[i].id)

\* The text after the Notion URL start, or the text itself.
WithoutUrl(t) ==
    IF Len(t) >= Len(NotionUrl) /\ SubSeq(t, 1, Len(NotionUrl)) = NotionUrl
    THEN SubSeq(t, Len(NotionUrl) + 1, Len(t))
    ELSE t

\* A valid representation of an id: with or without hyphens, or in a URL.
ValidRepresentation(v) ==
    /\ v # Absent
    /\ v.k = "str"
    /\ ReadsAsUuid(WithoutUrl(Strip(v.s)))

\* The validator the called operation is, applied to a text.
ValidatorOf(name, t) ==
    IF name = "_validate_page_id" THEN validate_page_id(PyStrVal(t))
    ELSE IF name = "_validate_database_id" THEN validate_database_id(PyStrVal(t))
    ELSE validate_uuid("page_id", PyStrVal(t))

Validators == {"_validate_page_id", "_validate_database_id", "_validate_uuid"}

\* C12: canonicalization is idempotent: every valid representation of an
\* id (hyphenated, unhyphenated, in a URL) has a canonical value, on which
\* canonicalizing again changes nothing; a canonical id is returned as it is.
C12_CanonicalizationIdempotent ==
    (op \in Validators /\ ValidRepresentation(id_value)) =>
        /\ reply.kind = "returned"
        /\ ValidatorOf(op, reply.payload).kind = "returned"
        /\ ValidatorOf(op, reply.payload).candidate = reply.payload
        /\ id_value.s = CanonicalForm(id_value.s) => reply.payload = id_value.s


(***************************************************************************)
(* Part 3: the request gateway (_request, _request_raw, NotionClient), the *)
(* resolution of the token, and what the operations make of an error       *)
(* answer of Notion.                                                       *)
(***************************************************************************)
TOKEN_ENV_CANDIDATES ==
    <<"NOTION_TOKEN", "NOTION_API_KEY", "NOTION_SECRET", "NOTION_ACCESS_TOKEN">>

\* The value of a token variable: not set (os.getenv gives ""), blank, or
\* a token of its own with whitespace around it.
EnvValues(name) == {<<>>, <<" ">>, <<" ", "t", "-">> \o <<name>> \o <<"\n">>}

Environs ==
    {e \in [{TOKEN_ENV_CANDIDATES[i] : i \in 1..Len(TOKEN_ENV_CANDIDATES)}
              -> UNION {EnvValues(TOKEN_ENV_CANDIDATES[i]) :
                          i \in 1..Len(TOKEN_ENV_CANDIDATES)}] :
        \A n \in DOMAIN e : e[n] \in EnvValues(n)}

\* The loop of _get_notion_token (and NotionClient._get_token) from
\* candidate i on: the first stripped value that is not empty, <<>> where
\* they raise.
RECURSIVE FirstToken(_, _)
FirstToken(env, i) ==
    IF i > Len(TOKEN_ENV_CANDIDATES) THEN <<>>
    ELSE LET value == Strip(env[TOKEN_ENV_CANDIDATES[i]])
         IN IF value # <<>> THEN value ELSE FirstToken(env, i + 1)

get_notion_token(env) == FirstToken(env, 1)

\* What Notion may answer: a status, a body that is JSON (an error object
\* with code and message) or plain text.  `at` is the request of a call
\* that gets this answer; the requests before it are answered 200.
Statuses == {200, 204, 304, 400, 403, 404, 500}

Responses ==
    {[status |-> st, json |-> j, text |-> IF j THEN "{code, message}" ELSE "plain",
      at |-> n] : st \in Statuses, j \in BOOLEAN, n \in {1, 2}}

OkResponse == [status |-> 200, json |-> TRUE, text |-> "{code, message}", at |-> 1]

\* The answer to request number n of the call.
Answer(n) == IF n = response.at THEN response ELSE OkResponse

\* f"Notion API error ({status}): {text}"
ErrorDetail(status, text) == [status |-> status, text |-> text]

\* _parse_notion_error: the message of a JSON body, the text of any other.
parse_notion_error(resp) == IF resp.json THEN "message" ELSE resp.text

\* The outcome of a gateway call: kind "returned", "raised" (with status
\* code and detail) or "crash"; sent tells whether the request went out.
Outcome(how, code, detail, sent) ==
    [kind |-> how, code |-> code, detail |-> detail, sent |-> sent]

NoDetail == ErrorDetail(0, "")

MissingToken == Outcome("raised", 500, ErrorDetail(500, "Missing Notion token in environment"), FALSE)

\* _request: the headers need the token; a response that is not ok raises
\* HTTPException(status, detail); response.json() of a body that is not
\* JSON raises a ValueError.
request(env, resp) ==
    IF get_notion_token(env) = <<>> THEN MissingToken
    ELSE IF ~ResponseOk(resp.status)
         THEN Outcome("raised", resp.status, ErrorDetail(resp.status, resp.text), TRUE)
    ELSE IF ~resp.json THEN Outcome("crash", 0, NoDetail, TRUE)
    ELSE Outcome("returned", resp.status, ErrorDetail(resp.status, resp.text), TRUE)

\* _request_raw: the response as it came.
request_raw(env, resp) ==
    IF get_notion_token(env) = <<>> THEN MissingToken
    ELSE Outcome("returned", resp.status, ErrorDetail(resp.status, resp.text), TRUE)

\* NotionClient() and then client.request: the token is read when the
\* client is made, NotionAPIError(500) where there is none.
client_request(env, resp) ==
    IF get_notion_token(env) = <<>> THEN MissingToken
    ELSE IF ~ResponseOk(resp.status)
         THEN Outcome("raised", resp.status, ErrorDetail(resp.status, resp.text), TRUE)
    ELSE IF ~resp.json THEN Outcome("crash", 0, NoDetail, TRUE)
    ELSE Outcome("returned", resp.status, ErrorDetail(resp.status, resp.text), TRUE)

\* NotionClient() and then client.request_raw.
client_request_raw(env, resp) ==
    IF get_notion_token(env) = <<>> THEN MissingToken
    ELSE Outcome("returned", resp.status, ErrorDetail(resp.status, resp.text), TRUE)


\* What the caller gets of an outcome of the gateway.
ReplyOf(o) == Reply(o.kind, o.code, "", o.detail, <<>>, <<>>)

\* The requests a call sent when its gateway calls had these outcomes.
SentOf(method, path, outcomes) ==
    LET sent == SelectSeq(outcomes, LAMBDA o : o.sent)
    IN [i \in 1..Len(sent) |-> RequestTo(method[i], path[i], <<>>)]

\* log_selftest_on_startup: selftest runs, whatever it reports or raises is
\* logged, and the application serves.
Startup ==
    /\ service = "starting"
    /\ service' = "serving"
    /\ UNCHANGED <<db_schema, params_properties, parent_type, id_value, environ,
                   response, op, requests, reply>>
    /\ UNCHANGED scanVars

\* _get_notion_token, called for the headers of a request.
GetNotionToken ==
    /\ service = "serving"
    /\ LET token == get_notion_token(environ)
       IN Call("_get_notion_token", <<>>,
               IF token = <<>> THEN ReplyOf(MissingToken)
               ELSE Reply("returned", 0, "", token, <<>>, <<>>))

\* NotionClient(): the constructor reads the token.
NewNotionClient ==
    LET token == get_notion_token(environ)
    IN Call("NotionClient", <<>>,
            IF token = <<>> THEN ReplyOf(MissingToken)
            ELSE Reply("returned", 0, "", token, <<>>, <<>>))

GatewayRequest ==
    /\ service = "serving"
    /\ LET o == request(environ, Answer(1))
       IN Call("_request", SentOf(<<"GET">>, <<"{url}">>, <<o>>), ReplyOf(o))

GatewayRequestRaw ==
    /\ service = "serving"
    /\ LET o == request_raw(environ, Answer(1))
       IN Call("_request_raw", SentOf(<<"GET">>, <<"{url}">>, <<o>>), ReplyOf(o))

ClientRequest ==
    LET o == client_request(environ, Answer(1))
    IN Call("NotionClient.request", SentOf(<<"GET">>, <<"{url}">>, <<o>>), ReplyOf(o))

ClientRequestRaw ==
    LET o == client_request_raw(environ, Answer(1))
    IN Call("NotionClient.request_raw", SentOf(<<"GET">>, <<"{url}">>, <<o>>),
            ReplyOf(o))

Forbidden == Reply("raised", 403, "", ErrorDetail(0, "Database access forbidden"), <<>>, <<>>)

\* GET /read/database/{database_id} with a valid id: the database is read
\* with _request_raw, then its entries with _request (one result page).
ReadDatabase ==
    /\ service = "serving"
    /\ LET first == request_raw(environ, Answer(1))
           second == request(environ, Answer(2))
           methods == <<"GET", "POST">>
           paths == <<"databases/{id}", "databases/{id}/query">>
       IN IF ~first.sent THEN Call("read_database", <<>>, ReplyOf(first))
          ELSE IF first.code \in {403, 404}
          THEN Call("read_database", SentOf(methods, paths, <<first>>), Forbidden)
          ELSE IF ~ResponseOk(first.code)
          THEN Call("read_database", SentOf(methods, paths, <<first>>),
                    Reply("raised", first.code, "", first.detail, <<>>, <<>>))
          ELSE IF second.kind = "raised" /\ second.code \in {403, 404}
          THEN Call("read_database", SentOf(methods, paths, <<first, second>>), Forbidden)
          ELSE IF second.kind \in {"raised", "crash"}
          THEN Call("read_database", SentOf(methods, paths, <<first, second>>),
                    ReplyOf(second))
          ELSE Call("read_database", SentOf(methods, paths, <<first, second>>),
                    Reply("ok", 200, "", NoDetail, <<>>, <<>>))

\* command, action db.schema with a valid id: an HTTPException of the
\* gateway is caught and answered as fail with its detail.
CommandUpstream ==
    /\ service = "serving"
    /\ LET o == request(environ, Answer(1))
           sent == SentOf(<<"GET">>, <<"databases/{id}">>, <<o>>)
       IN IF o.kind = "raised"
          THEN Call("command", sent, Reply("fail", 200, "Command failed", o.detail, <<>>, <<>>))
          ELSE IF o.kind = "crash" THEN Call("command", sent, Crashed)
          ELSE Call("command", sent, Reply("ok", 200, "", NoDetail, <<>>, <<>>))

\* _delete_blocks of one valid id: the detail of its HTTPException is made
\* of the code and message _parse_notion_error finds, not of the status.
DeleteBlocks ==
    /\ service = "serving"
    /\ LET o == request_raw(environ, Answer(1))
           sent == SentOf(<<"DELETE">>, <<"blocks/{id}">>, <<o>>)
       IN IF ~o.sent THEN Call("_delete_blocks", sent, ReplyOf(o))
          ELSE IF ~ResponseOk(o.code)
          THEN Call("_delete_blocks", sent,
                    Reply("raised", o.code, "",
                          ErrorDetail(0, parse_notion_error(Answer(1))), <<>>, <<>>))
          ELSE Call("_delete_blocks", sent, Reply("returned", 0, "", NoDetail, <<>>, <<>>))

GateInit ==
    /\ ScanIdle
    /\ db_schema = <<>>
    /\ params_properties = <<>>
    /\ parent_type = ""
    /\ id_value = <<>>
    /\ environ \in Environs
    /\ response \in Responses
    /\ service = "starting"
    /\ op = ""
    /\ requests = <<>>
    /\ reply = NoReply

GateNext ==
    \/ Startup
    \/ GetNotionToken
    \/ NewNotionClient
    \/ GatewayRequest
    \/ GatewayRequestRaw
    \/ ClientRequest
    \/ ClientRequestRaw
    \/ ReadDatabase
    \/ CommandUpstream
    \/ DeleteBlocks

GateSpec == GateInit /\ [][GateNext]_vars


\* ------------------------------------------------ claims on the gateway
Is2xx(status) == status >= 200 /\ status <= 299

\* C13: _request and NotionClient.request raise a failure with the status
\* code and the body text of every response that is not 2xx and return the
\* body only for 2xx; the raw variants return every response untouched.
C13_GatewayRaisesOnNon2xx ==
    /\ (op \in {"_request", "NotionClient.request"} /\ requests # <<>>) =>
          /\ ~Is2xx(Answer(1).status) =>
                /\ reply.kind = "raised"
                /\ reply.code = Answer(1).status
                /\ reply.payload.text = Answer(1).text
          /\ reply.kind = "returned" => Is2xx(Answer(1).status)
    /\ (op \in {"_request_raw", "NotionClient.request_raw"} /\ requests # <<>>) =>
          /\ reply.kind = "returned"
          /\ reply.code = Answer(1).status
          /\ reply.payload.text = Answer(1).text

\* The operations through which an error answer of Notion reaches a caller.
UpstreamOps ==
    {"_request", "NotionClient.request", "read_database", "command", "_delete_blocks"}

\* C14: when Notion answers a request of an operation with an error status,
\* the failure the caller gets carries that status and the body text as
\* they came; no operation puts another status in its place or drops it.
C14_UpstreamErrorPreserved ==
    op \in UpstreamOps =>
        \A n \in 1..Len(requests) :
            Answer(n).status >= 400 =>
                /\ reply.kind \in {"raised", "fail"}
                /\ reply.code = Answer(n).status \/ reply.payload.status = Answer(n).status
                /\ reply.code \in {200, Answer(n).status}
                /\ reply.payload.text = Answer(n).text

\* The candidates whose value has more than whitespace.
UsableCandidates ==
    {i \in 1..Len(TOKEN_ENV_CANDIDATES) :
        \E j \in 1..Len(environ[TOKEN_ENV_CANDIDATES[i]]) :
            ~IsSpace(environ[TOKEN_ENV_CANDIDATES[i]][j])}

\* The value of candidate i without the whitespace around it.
Trimmed(i) ==
    SelectSeq(environ[TOKEN_ENV_CANDIDATES[i]], LAMBDA c : ~IsSpace(c))

\* C15: the token is the trimmed value of the first of NOTION_TOKEN,
\* NOTION_API_KEY, NOTION_SECRET, NOTION_ACCESS_TOKEN that has one; with
\* none the service fails at start-up or construction with a missing
\* credential error and serves no operation.
C15_TokenResolution ==
    /\ (op \in {"_get_notion_token", "NotionClient"} /\ UsableCandidates # {}) =>
          /\ reply.kind = "returned"
          /\ \E i \in UsableCandidates :
                /\ \A j \in UsableCandidates : i <= j
                /\ reply.payload = Trimmed(i)
    /\ (op \in {"_get_notion_token", "NotionClient"} /\ UsableCandidates = {}) =>
          /\ reply.kind = "raised"
          /\ reply.code = 500
    /\ UsableCandidates = {} => service # "serving"


\* ------------------------------------------------ claims on the value rules
\* A is given and the schema the operation maps against has it with this type.
GivenForType(type) ==
    /\ op # ""
    /\ PropHas(params_properties, "A")
    /\ PropHas(SchemaUsed, "A")
    /\ SchemaOfA.type = type

\* A is neither in the mapped result nor in a POST or PATCH.
ANotMapped ==
    /\ ~PropHas(reply.payload, "A")
    /\ \A i \in Mutations : ~PropHas(requests[i].properties, "A")

\* The strict mapper reports A with this reason.
AReported(reason) ==
    \E i \in 1..Len(reply.errors) :
        /\ reply.errors[i].property = "A"
        /\ reply.errors[i].reason = reason

\* C16: a number is accepted only when the value is an int or a float; a
\* numeric string, a boolean, a list, a dict or None is rejected with
\* invalid_number and never coerced, on every path that maps a number.
C16_NumberOnlyIntOrFloat ==
    GivenForType("number") =>
        /\ GivenForA.k \notin {"int", "float"} =>
              /\ ANotMapped
              /\ op \in StrictMapperCalls => AReported("invalid_number")
        /\ (GivenForA.k \in {"int", "float"} /\ op \in StrictMapperCalls) =>
              /\ PropHas(reply.payload, "A")
              /\ PropGet(reply.payload, "A") = Payload("number", <<>>, GivenForA)


\* The calls whose reply is the mapping itself.
MapperCalls == StrictMapperCalls \cup {"_build_property_payload"}

\* C17: a date is accepted in two shapes only: a string that matches
\* \d{4}-\d{2}-\d{2} in full (2024-13-40 too), mapped to {date: {start}},
\* and a dict, passed through as it is; anything else is rejected with
\* invalid_date.
C17_DateShapes ==
    GivenForType("date") =>
        /\ (GivenForA.k = "str" /\ MatchesDate(GivenForA.s) /\ op \in MapperCalls) =>
              /\ PropHas(reply.payload, "A")
              /\ PropGet(reply.payload, "A") = Payload("date", <<GivenForA.s>>, PyNone)
        /\ (GivenForA.k = "dict" /\ op \in MapperCalls) =>
              /\ PropHas(reply.payload, "A")
              /\ PropGet(reply.payload, "A") = Payload("date", <<>>, GivenForA)
        /\ ~(GivenForA.k = "str" /\ MatchesDate(GivenForA.s)) /\ GivenForA.k # "dict" =>
              /\ ANotMapped
              /\ op \in StrictMapperCalls => AReported("invalid_date")

\* Every element of the list is a string with more than whitespace.
AllTargetIds(items) ==
    \A i \in 1..Len(items) : items[i].k = "str" /\ Strip(items[i].s) # <<>>

\* C18: a relation the strict mapper produces is a non-empty list of ids:
\* a value that is no list is reported expected_list, a list with an
\* element that is not a non-blank string invalid_relation_id, and the
\* empty list is never mapped.
C18_RelationNonEmptyIds ==
    (GivenForType("relation") /\ op \in StrictMapperCalls) =>
        /\ GivenForA.k # "list" => ANotMapped /\ AReported("expected_list")
        /\ (GivenForA.k = "list" /\ ~AllTargetIds(GivenForA.items)) =>
              ANotMapped /\ AReported("invalid_relation_id")
        /\ (GivenForA.k = "list" /\ GivenForA.items = <<>>) => ANotMapped
        /\ PropHas(reply.payload, "A") =>
              /\ PropGet(reply.payload, "A").texts # <<>>
              /\ PropGet(reply.payload, "A")
                   = Payload("relation",
                             [i \in 1..Len(GivenForA.items) |-> GivenForA.items[i].s],
                             PyNone)


\* The names of the options the schema of a property declares.
DeclaredNames(prop_schema) ==
    LET named == {i \in 1..Len(prop_schema.options) : prop_schema.options[i].name # <<>>}
    IN [n \in 1..Cardinality(named) |->
          prop_schema.options[CHOOSE i \in named :
                                 Cardinality({j \in named : j <= i}) = n].name]

\* C19: for a select or status the strict mapper reports missing_options
\* when the schema declares no named option, invalid_option when str(value)
\* is not a declared name, and maps the single name otherwise; every error
\* entry with one of these two reasons carries the allowed option names.
C19_SelectStatusStrict ==
    op \in StrictMapperCalls =>
        /\ (PropHas(params_properties, "A") /\ PropHas(db_schema, "A")
               /\ SchemaOfA.type \in {"select", "status"}) =>
              LET names == DeclaredNames(SchemaOfA)
                  text == PyStr(GivenForA)
              IN /\ names = <<>> =>
                       /\ ANotMapped
                       /\ InSeq(ErrorEntry("A", "missing_options", TRUE, <<>>), reply.errors)
                 /\ (names # <<>> /\ ~InSeq(text, names)) =>
                       /\ ANotMapped
                       /\ InSeq(ErrorEntry("A", "invalid_option", TRUE, names), reply.errors)
                 /\ (names # <<>> /\ InSeq(text, names)) =>
                       /\ PropHas(reply.payload, "A")
                       /\ PropGet(reply.payload, "A") = Payload(SchemaOfA.type, <<text>>, PyNone)
                       /\ ErrorsAbout(reply.errors, "A") = 0
        /\ \A i \in 1..Len(reply.errors) :
              reply.errors[i].reason \in {"invalid_option", "missing_options"} =>
                  /\ reply.errors[i].with_options
                  /\ reply.errors[i].options
                       = DeclaredNames(PropGet(db_schema, reply.errors[i].property))

\* A status given the number 3 is mapped to the option named 3, while the
\* select B given a name it does not have is reported with its options.
C19_Witness ==
    /\ op \in StrictMapperCalls
    /\ PropHas(params_properties, "A")
    /\ PropHas(db_schema, "A")
    /\ SchemaOfA.type = "status"
    /\ GivenForA = PyInt(3)
    /\ PropHas(reply.payload, "A")
    /\ PropGet(reply.payload, "A") = Payload("status", <<Three>>, PyNone)
    /\ InSeq(ErrorEntry("B", "invalid_option", TRUE, <<Opt1, Opt2>>), reply.errors)


\* ------------------------------------------------ claims on command
\* The actions of command the model calls.
CommandActions == {"page.read", "page.delete", "db.schema", "db.create", "block.delete"}

\* The id given is a string that holds, between whitespace, a UUID.
GivenValidId ==
    /\ id_value # Absent
    /\ id_value.k = "str"
    /\ ReadsAsUuid(Strip(id_value.s))
    /\ Len(Strip(id_value.s)) <= MaxIdLen

\* C20: command always answers ok or fail and lets no exception out: a
\* validation failure or an error of Notion gives fail with a reason, an
\* action it does not know gives fail with the 13 supported actions and no
\* request, and a supported action with valid parameters that Notion
\* answers gives ok with the requests it made.
C20_CommandAnswersOkOrFail ==
    /\ op \in CommandActions \cup UnknownActions =>
          /\ reply.kind \in {"ok", "fail"}
          /\ reply.kind = "fail" => reply.reason # ""
    /\ op \in UnknownActions =>
          /\ reply.kind = "fail"
          /\ reply.payload = SupportedActions
          /\ Len(reply.payload) = 13
          /\ requests = <<>>
    /\ (op \in {"page.read", "db.schema"} /\ GivenValidId) =>
          /\ reply.kind = "ok"
          /\ requests # <<>>



(***************************************************************************)
(* Part 4: POST /selftest.  The three try blocks of selftest are the three *)
(* actions; between them reply holds the checks and notion_errors gathered *)
(* so far (kind "running") and requests the requests sent so far.  The     *)
(* variable response is what Notion holds and answers during the call.     *)
(***************************************************************************)
\* The requests selftest sends after the discovery, when nothing fails.
SelftestRequestCount == 5

SelftestIds == {<<>>, <<"x">>, HexRun(UuidHexLen, LowerHex)}

\* The "properties" of the discovered database, in dict order.
SelftestSchemas ==
    {<<[name |-> "Name", type |-> "title"]>>,
     <<[name |-> "Name", type |-> "title"], [name |-> "Done", type |-> "checkbox"]>>,
     <<[name |-> "Notes", type |-> "rich_text"], [name |-> "Name", type |-> "title"]>>,
     <<[name |-> "Notes", type |-> "rich_text"]>>,
     <<[name |-> "Count", type |-> "number"]>>}

\* What Notion holds and answers: the outcome of the discovery, the id of
\* the database found, the ids of the rows the query returns, the schema,
\* whether the page read has the properties of the schema, whether the
\* page read back shows the update, and the request (1 to 5, 0: none) that
\* Notion answers with the error status.
SelftestWorlds ==
    [database : {"none", "raises", "found"},
     database_id : SelftestIds,
     rows : {<<>>} \cup {<<i>> : i \in SelftestIds},
     schema : SelftestSchemas,
     page_has : BOOLEAN,
     applied : BOOLEAN,
     status : {403, 500},
     at : 0..SelftestRequestCount]

\* The status of the answer to the n-th request after the discovery.
SelftestAnswer(n) == IF response.at = n THEN response.status ELSE 200

\* An entry of checks; id is its database_id or page_id, if it has one.
SelftestCheck(name, status, id) == [name |-> name, status |-> status, id |-> id]

\* The locals of a selftest that runs: checks, notion_errors, the requests.
SelftestState(how, checks, errors, sent) ==
    [kind |-> how, checks |-> checks, errors |-> errors, sent |-> sent]

\* Mutant: a failed step is recorded and selftest goes on.
FailedStep_KeepsRunning(name, detail, st) ==
    [st EXCEPT !.checks = Append(@, SelftestCheck(name, "FAIL", <<>>)),
               !.errors = Append(@, [step |-> name, detail |-> detail])]

\* `except HTTPException as exc:` of a step: the check FAIL, the error, and
\* the report with status FAIL is what selftest returns.
FailedStep(name, detail, st) ==
    [st EXCEPT !.kind = "FAIL",
               !.checks = Append(@, SelftestCheck(name, "FAIL", <<>>)),
               !.errors = Append(@, [step |-> name, detail |-> detail])]

PassedStep(name, id, st) ==
    [st EXCEPT !.checks = Append(@, SelftestCheck(name, "PASS", id))]

\* _find_first_property_of_type: the name, or "" for None.
RECURSIVE FindFirstFrom(_, _, _)
FindFirstFrom(schema_properties, prop_type, i) ==
    IF i > Len(schema_properties) THEN ""
    ELSE IF schema_properties[i].type = prop_type THEN schema_properties[i].name
    ELSE FindFirstFrom(schema_properties, prop_type, i + 1)

find_first_property_of_type(schema_properties, prop_type) ==
    FindFirstFrom(schema_properties, prop_type, 1)

\* The property selftest updates: the first checkbox, else the title if the
\* page has it, else the first rich_text if the page has it, else "" (400).
UpdateTarget(schema_properties, page_has) ==
    LET checkbox_name == find_first_property_of_type(schema_properties, "checkbox")
        title_name == find_first_property_of_type(schema_properties, "title")
        rich_text_name == find_first_property_of_type(schema_properties, "rich_text")
    IN IF checkbox_name # "" THEN checkbox_name
       ELSE IF title_name # "" /\ page_has THEN title_name
       ELSE IF rich_text_name # "" /\ page_has THEN rich_text_name
       ELSE ""

\* The first try block: _discover_database_for_selftest and the id it found.
selftest_discovery(world) ==
    LET st == SelftestState("running", <<>>, <<>>, <<RequestTo("POST", "search", <<>>)>>)
        name == "database_discovery"
    IN IF world.database = "raises" THEN FailedStep(name, "Notion API error", st)
       ELSE IF world.database = "none"
            THEN FailedStep(name, "No accessible database found for selftest", st)
       ELSE IF world.database_id = <<>>
            THEN FailedStep(name, "Discovered database missing id", st)
       ELSE IF validate_database_id(PyStrVal(world.database_id)).kind = "raised"
            THEN FailedStep(name, "Invalid database_id", st)
       ELSE PassedStep(name, world.database_id, st)

\* The second try block: the query for one row and the id of that row.
selftest_query(world, status, st) ==
    LET database_id == st.checks[1].id
        asked == [st EXCEPT !.sent =
                     Append(@, RequestTo("POST", "databases/{id}/query", database_id))]
        name == "database_query"
    IN IF ~ResponseOk(status) THEN FailedStep(name, "Notion API error", asked)
       ELSE IF world.rows = <<>>
            THEN FailedStep(name, "No pages found in database for selftest", asked)
       ELSE IF validate_page_id(PyStrVal(world.rows[1])).kind = "raised"
            THEN FailedStep(name, "Invalid page_id", asked)
       ELSE PassedStep(name, world.rows[1], asked)

\* The third try block: schema and page are read, one property is updated
\* and the page is read back; statuses[n] answers its n-th request.
selftest_update(world, statuses, st) ==
    LET database_id == st.checks[1].id
        page_id == st.checks[2].id
        get_schema == RequestTo("GET", "databases/{id}", database_id)
        get_page == RequestTo("GET", "pages/{id}", page_id)
        patch_page == RequestTo("PATCH", "pages/{id}", page_id)
        target == UpdateTarget(world.schema, world.page_has)
        name == "update_page"
        With(sent) == [st EXCEPT !.sent = @ \o sent]
    IN IF ~ResponseOk(statuses[1])
       THEN FailedStep(name, "Notion API error", With(<<get_schema>>))
       ELSE IF ~ResponseOk(statuses[2])
       THEN FailedStep(name, "Notion API error", With(<<get_schema, get_page>>))
       ELSE IF target = ""
       THEN FailedStep(name,
                "No checkbox, title, or rich_text property found for selftest update",
                With(<<get_schema, get_page>>))
       ELSE IF ~ResponseOk(statuses[3])
       THEN FailedStep(name, "Notion API error",
                       With(<<get_schema, get_page, patch_page>>))
       ELSE LET updated == PassedStep(name, <<>>,
                               With(<<get_schema, get_page, patch_page, get_page>>))
            IN IF ~ResponseOk(statuses[4])
               THEN FailedStep(name, "Notion API error", updated)
               ELSE IF ~world.applied
               THEN FailedStep(name, "update verification failed", updated)
               ELSE [PassedStep("verify_update", <<>>, updated) EXCEPT !.kind = "PASS"]

\* A step of selftest leaves the state st.
SelftestStep(st) ==
    /\ op' = "selftest"
    /\ requests' = st.sent
    /\ reply' = Reply(st.kind, 200, "", st.checks, st.errors, <<>>)
    /\ UNCHANGED <<db_schema, params_properties, parent_type, id_value, environ,
                   response, service>>
    /\ UNCHANGED scanVars

SelftestRunning == op = "selftest" /\ reply.kind = "running"

SelftestLocals == SelftestState(reply.kind, reply.payload, reply.errors, requests)

SelftestDiscovery ==
    /\ op = ""
    /\ SelftestStep(selftest_discovery(response))

SelftestQuery ==
    /\ SelftestRunning
    /\ Len(reply.payload) = 1
    /\ SelftestStep(selftest_query(response, SelftestAnswer(1), SelftestLocals))

SelftestUpdate ==
    /\ SelftestRunning
    /\ Len(reply.payload) = 2
    /\ SelftestStep(selftest_update(response,
                        [n \in 1..4 |-> SelftestAnswer(n + 1)], SelftestLocals))

SelfInit ==
    /\ ScanIdle
    /\ db_schema = <<>>
    /\ params_properties = <<>>
    /\ parent_type = ""
    /\ id_value = <<>>
    /\ environ = <<>>
    /\ response \in SelftestWorlds
    /\ service = "serving"
    /\ op = ""
    /\ requests = <<>>
    /\ reply = NoReply

SelfNext == SelftestDiscovery \/ SelftestQuery \/ SelftestUpdate

SelfSpec == SelfInit /\ [][SelfNext]_vars

\* ------------------------------------------------ claims on selftest
\* The names of the checks of the report, in order.
CheckNames == [i \in 1..Len(reply.payload) |-> reply.payload[i].name]

\* C21: a report with status PASS has exactly the checks database_discovery,
\* database_query, update_page, verify_update, in this order and all PASS,
\* the first with a database_id and the second with a page_id; a failed
\* database_discovery or database_query is the last check of a report with
\* status FAIL, and no PATCH has been sent.
C21_SelftestPassMeansFourSteps ==
    op = "selftest" =>
        /\ reply.kind = "PASS" =>
              /\ CheckNames = <<"database_discovery", "database_query",
                                "update_page", "verify_update">>
              /\ \A i \in 1..Len(reply.payload) : reply.payload[i].status = "PASS"
              /\ reply.payload[1].id # <<>>
              /\ reply.payload[2].id # <<>>
        /\ \A i \in 1..Len(reply.payload) :
              (/\ reply.payload[i].name \in {"database_discovery", "database_query"}
               /\ reply.payload[i].status = "FAIL") =>
                  /\ reply.kind = "FAIL"
                  /\ i = Len(reply.payload)
                  /\ \A n \in 1..Len(requests) : requests[n].method # "PATCH"

\* A selftest that passed by updating a title, after four requests and a PATCH.
C21_Witness ==
    /\ op = "selftest"
    /\ reply.kind = "PASS"
    /\ Len(reply.payload) = 4
    /\ UpdateTarget(response.schema, response.page_has) = "Name"
    /\ \E n \in 1..Len(requests) : requests[n].method = "PATCH"



(***************************************************************************)
(* Part 5: the operations on the children of a block: block.replace and    *)
(* block.delete of command, replace_blocks, replace_page_content and       *)
(* delete_blocks of NotionWriter.  Here response is the state of Notion:   *)
(* the children of the target block, to which another caller may append    *)
(* while a replace runs.  A replace takes one action for its listing, one  *)
(* per DELETE and one for the final append; between them reply (kind       *)
(* "running") holds the listed ids that are still to be deleted.           *)
(***************************************************************************)
\* Largest number of blocks another caller appends during a call.
MaxOtherAppends == 1
\* Largest number of children the block has before the call.
MaxChildren == 2

\* The id of a block: a UUID without hyphens that starts with the digit c.
BlockUuid(c) == <<c>> \o SubSeq(HexRun(UuidHexLen, LowerHex), 2, UuidHexLen)

\* The children before the call, the block of the other caller, and the
\* id Notion gives to the i-th block of an append of the call.
OldBlocks == [i \in 1..MaxChildren |-> BlockUuid(DigitChars[i + 1])]
OtherBlock == BlockUuid("9")
NewBlock(i) == BlockUuid(LowerHex[i])

\* The items of "blocks" a caller may give.
BlockItems ==
    {[type |-> "paragraph", text |-> PyStrVal(Hello)],
     [type |-> "heading_1", text |-> PyStrVal(Hello)],
     [type |-> "image", text |-> PyStrVal(Hello)],
     [type |-> "paragraph", text |-> PyStrVal(Blank)],
     [type |-> "paragraph", text |-> PyInt(3)]}

BlockPayloads == UNION {[1..n -> BlockItems] : n \in 0..MaxListLen}

\* The ids of "block_ids" a caller may give.
BlockIdTexts == {OldBlocks[1], OldBlocks[MaxChildren], <<>>, <<"x", "y">>}

BlockIdLists == UNION {[1..n -> BlockIdTexts] : n \in 0..MaxListLen}

\* What a builder of blocks returns or raises.
Built(raised, blocks) == [raised |-> raised, blocks |-> blocks]

\* main._build_blocks_from_items: paragraphs with text only, at least one.
build_blocks_from_items(items) ==
    IF \E i \in 1..Len(items) :
          \/ items[i].type # "paragraph"
          \/ items[i].text.k # "str"
          \/ Strip(items[i].text.s) = <<>>
    THEN Built(TRUE, <<>>)
    ELSE IF items = <<>> THEN Built(TRUE, <<>>)
    ELSE Built(FALSE, items)

nw_BlockTypes ==
    {"paragraph", "heading_1", "heading_2", "heading_3", "bulleted_list_item",
     "numbered_list_item", "to_do"}

\* notion_writer._build_blocks_from_items.
nw_build_blocks_from_items(items) ==
    IF \E i \in 1..Len(items) :
          \/ items[i].text.k # "str"
          \/ Strip(items[i].text.s) = <<>>
          \/ items[i].type \notin nw_BlockTypes
    THEN Built(TRUE, <<>>)
    ELSE IF items = <<>> THEN Built(TRUE, <<>>)
    ELSE Built(FALSE, items)

\* _build_children_from_content(content, None) or []: one paragraph for
\* each line of content that is not blank; the lines are the items' texts.
build_children_from_content(lines) ==
    Built(FALSE, SelectSeq(lines, LAMBDA line : Strip(line.text.s) # <<>>))

\* The children of the block without the block called id.
WithoutBlock(children, id) == SelectSeq(children, LAMBDA c : c # id)

\* A step of an operation on the block: what it sent in all, where it
\* stands or what it answers, and the children Notion holds after it.
BlockStep(name, sent, answer, children) ==
    /\ op' = name
    /\ requests' = sent
    /\ reply' = answer
    /\ response' = [response EXCEPT !.children = children]
    /\ UNCHANGED <<db_schema, params_properties, parent_type, id_value, environ,
                   service>>
    /\ UNCHANGED scanVars

ReplaceOps == {"block.replace", "replace_blocks", "replace_page_content"}

\* The start of a replace of a block with a valid id, up to the listing of
\* _delete_all_page_blocks; command first asks for a non-empty "blocks".
ReplaceList(name) ==
    /\ op = ""
    /\ name = "replace_page_content" =>
          \A i \in 1..Len(params_properties) : params_properties[i].text.k = "str"
    /\ IF name = "block.replace" /\ params_properties = <<>>
       THEN BlockStep(name, <<>>,
                Reply("fail", 200, "blocks are required", <<>>, <<>>, <<>>),
                response.children)
       ELSE BlockStep(name, <<RequestTo("GET", "blocks/{id}/children", <<>>)>>,
                Reply("running", 0, "", response.children, <<>>, <<>>),
                response.children)

\* One turn of the loop of _delete_all_page_blocks: the next listed child
\* is deleted.
ReplaceDelete ==
    /\ op \in ReplaceOps
    /\ reply.kind = "running"
    /\ reply.payload # <<>>
    /\ BlockStep(op,
           Append(requests, RequestTo("DELETE", "blocks/{id}", Head(reply.payload))),
           [reply EXCEPT !.payload = Tail(@)],
           WithoutBlock(response.children, Head(reply.payload)))

\* After the deletions the blocks are built from the payload and appended.
ReplaceAppend ==
    /\ op \in ReplaceOps
    /\ reply.kind = "running"
    /\ reply.payload = <<>>
    /\ LET built == IF op = "block.replace"
                    THEN build_blocks_from_items(params_properties)
                    ELSE IF op = "replace_blocks"
                    THEN nw_build_blocks_from_items(params_properties)
                    ELSE build_children_from_content(params_properties)
           new == [i \in 1..Len(built.blocks) |-> NewBlock(i)]
           patch == [RequestTo("PATCH", "blocks/{id}/children", <<>>)
                        EXCEPT !.properties = built.blocks]
       IN IF built.raised
          THEN BlockStep(op, requests,
                   IF op = "block.replace" THEN CommandFailed
                   ELSE Reply("raised", 400, "", <<>>, <<>>, <<>>),
                   response.children)
          ELSE BlockStep(op, Append(requests, patch),
                   Reply(IF op = "block.replace" THEN "ok" ELSE "returned",
                         200, "", new, <<>>, <<>>),
                   response.children \o new)

\* Another caller appends a block to the same block before the call ends.
OtherAppend ==
    /\ reply.kind \in {"none", "running"}
    /\ response.appended < MaxOtherAppends
    /\ response' = [response EXCEPT !.children = Append(@, OtherBlock),
                                     !.appended = @ + 1]
    /\ UNCHANGED <<db_schema, params_properties, parent_type, id_value, environ,
                   service, op, requests, reply>>
    /\ UNCHANGED scanVars

\* What a loop of deletions has sent when it ends, and the status it
\* raises (0: none).
Deleted(sent, code) == [sent |-> sent, code |-> code]

\* The loop of main._delete_blocks from the i-th id on.
RECURSIVE delete_blocks(_, _, _)
delete_blocks(block_ids, i, sent) ==
    IF i > Len(block_ids) THEN Deleted(sent, 0)
    ELSE IF block_ids[i] = <<>> THEN Deleted(sent, 400)
    ELSE LET asked == Append(sent, RequestTo("DELETE", "blocks/{id}", block_ids[i]))
         IN IF ~ResponseOk(NotionStatus(block_ids[i]))
            THEN Deleted(asked, NotionStatus(block_ids[i]))
            ELSE delete_blocks(block_ids, i + 1, asked)

\* The loop of NotionWriter.delete_blocks from the i-th id on.
RECURSIVE nw_delete_blocks(_, _, _)
nw_delete_blocks(block_ids, i, sent) ==
    IF i > Len(block_ids) THEN Deleted(sent, 0)
    ELSE LET v == validate_uuid("block_id", PyStrVal(block_ids[i]))
             asked == Append(sent, RequestTo("DELETE", "blocks/{id}", v.candidate))
         IN IF v.kind = "raised" THEN Deleted(sent, v.code)
            ELSE IF ~ResponseOk(NotionStatus(v.candidate))
            THEN Deleted(asked, NotionStatus(v.candidate))
            ELSE nw_delete_blocks(block_ids, i + 1, asked)

\* The children left when Notion has carried out the deletions it accepted.
AfterDeletions(children, sent) ==
    SelectSeq(children,
              LAMBDA c : ~\E n \in 1..Len(sent) :
                            sent[n].id = c /\ ResponseOk(NotionStatus(sent[n].id)))

\* command, action block.delete with params {"block_ids": id_value}.
CommandBlockDeleteList ==
    /\ op = ""
    /\ LET d == delete_blocks(id_value, 1, <<>>)
       IN IF id_value = <<>>
          THEN BlockStep("block.delete", <<>>,
                   Reply("fail", 200, "block_ids must be a non-empty list",
                         <<>>, <<>>, <<>>),
                   response.children)
          ELSE BlockStep("block.delete", d.sent,
                   IF d.code # 0 THEN CommandFailed
                   ELSE Reply("ok", 200, "", id_value, <<>>, <<>>),
                   AfterDeletions(response.children, d.sent))

\* NotionWriter.delete_blocks(id_value).
WriterDeleteBlocks ==
    /\ op = ""
    /\ LET d == nw_delete_blocks(id_value, 1, <<>>)
       IN BlockStep("delete_blocks", d.sent,
              IF d.code # 0 THEN Reply("raised", d.code, "", <<>>, <<>>, <<>>)
              ELSE Reply("returned", 0, "", id_value, <<>>, <<>>),
              AfterDeletions(response.children, d.sent))

BlockInit ==
    /\ ScanIdle
    /\ db_schema = <<>>
    /\ params_properties \in BlockPayloads
    /\ parent_type = ""
    /\ id_value \in BlockIdLists
    /\ environ = <<>>
    /\ response \in [children : {SubSeq(OldBlocks, 1, n) : n \in 0..MaxChildren},
                      appended : {0}]
    /\ service = "serving"
    /\ op = ""
    /\ requests = <<>>
    /\ reply = NoReply

BlockNext ==
    \/ \E name \in ReplaceOps : ReplaceList(name)
    \/ ReplaceDelete
    \/ ReplaceAppend
    \/ OtherAppend
    \/ CommandBlockDeleteList
    \/ WriterDeleteBlocks

BlockSpec == BlockInit /\ [][BlockNext]_vars

\* ------------------------------------------------ claims on the blocks
\* The call has ended with success.
Succeeded == reply.kind \in {"ok", "returned"}

\* C22: when a replace returns with success, the children of the block are
\* exactly the blocks it appended: no block that was a child before or
\* during the call is left, another caller's append during it included.
C22_ReplaceLeavesOnlyNewBlocks ==
    (op \in ReplaceOps /\ Succeeded) => response.children = reply.payload

\* Some item of the payload is not a block the operation can build.
InvalidPayload ==
    /\ params_properties # <<>>
    /\ \E i \in 1..Len(params_properties) :
          \/ params_properties[i].type = "image"
          \/ params_properties[i].text.k # "str"
          \/ Strip(params_properties[i].text.s) = <<>>

\* C23: block.replace and replace_blocks check the payload before they
\* change anything: with an invalid payload the call is rejected, no DELETE
\* is sent and the children stay.
C23_ReplaceValidatesFirst ==
    (op \in {"block.replace", "replace_blocks"} /\ InvalidPayload) =>
        /\ ~Succeeded
        /\ \A n \in 1..Len(requests) : requests[n].method # "DELETE"

\* Some id of the list is empty or does not read as a UUID.
SomeBadId == \E i \in 1..Len(id_value) : ~ReadsAsUuid(id_value[i])

\* C24: block.delete and delete_blocks send no DELETE at all when an id of
\* the list is empty or malformed, not even for the valid ids before it.
C24_DeleteAllOrNothing ==
    (op \in {"block.delete", "delete_blocks"} /\ SomeBadId) =>
        /\ ~Succeeded
        /\ requests = <<>>


\* ------------------------------------------------ more claims on the scanner
\* C25: the pages catalog of _scan_workspace is first-write-wins: a turn of
\* the scan leaves every entry the catalog already has as it is, title and
\* parent included, and only adds entries for new ids.
C25_PagesFirstWriteWins ==
    [][/\ Len(pages') >= Len(pages)
       /\ SubSeq(pages', 1, Len(pages)) = pages]_vars

\* A page was shown by two listings the scan made, with different titles or
\* parents, and the scan has returned with one entry for it.
C25_Witness ==
    /\ pc = "done"
    /\ \E x \in Ids : \E p \in seen_block_ids : \E q \in seen_block_ids :
          /\ kind[x] = "child_page"
          /\ x \in Listed(p)
          /\ x \in Listed(q)
          /\ ChildPageEntry(ServerBlock(p, x)) # ChildPageEntry(ServerBlock(q, x))
          /\ Occurrences(pages, x) = 1
          /\ DictGet(pages, x) \in {ChildPageEntry(ServerBlock(p, x)),
                                      ChildPageEntry(ServerBlock(q, x))}



(***************************************************************************)
(* Part 6: the loops over a cursor-paginated endpoint, turn by turn: the   *)
(* helpers _paginate_block_children and _paginate_database_pages of both   *)
(* files and _read_database_entries.  Notion is free in what it answers:   *)
(* here response is the sequence of the answers so far, id_value the       *)
(* page_size or limit argument, and reply (kind "running") holds the       *)
(* results gathered so far.                                                *)
(***************************************************************************)
\* Largest number of requests of one call that the model follows.
MaxPages == 3

\* Upper limit of page_size in _read_database_entries.
EntryPageSizeCap == 50

NoCursor == "None"

PaginationAnswer(status, results, has_more, next_cursor) ==
    [status |-> status, results |-> results, has_more |-> has_more,
     next_cursor |-> next_cursor]

\* What Notion may answer to one request: an error, or up to two results
\* (whatever the page_size asked), has_more set or not, and a cursor or none.
PaginationAnswers ==
    {PaginationAnswer(500, <<>>, FALSE, NoCursor)}
    \cup {PaginationAnswer(200, r, FALSE, NoCursor) : r \in {<<>>, <<"p">>, <<"q", "r">>}}
    \cup {PaginationAnswer(200, r, TRUE, c) :
             r \in {<<>>, <<"p">>, <<"q", "r">>}, c \in {"c1", "c2", NoCursor}}

BlockPaginators == {"_paginate_block_children", "notion_writer._paginate_block_children"}

PaginateOps ==
    BlockPaginators
    \cup {"_paginate_database_pages", "notion_writer._paginate_database_pages",
          "_read_database_entries"}

\* The page_size or limit a helper may be called with (the helpers without
\* such an argument ask for BlockPageSize).
PaginateArgs(name) ==
    IF name = "_paginate_database_pages" THEN {ScanRowPageSize, RowPageSizeCap, 150}
    ELSE IF name = "_read_database_entries" THEN {0, 1, 3, 60}
    ELSE {BlockPageSize}

\* The params or payload of a request.
PageParams(page_size, start_cursor) ==
    [page_size |-> page_size, start_cursor |-> start_cursor]

\* The params or payload of the first request of a helper.
first_params(name, arg) ==
    IF name = "_read_database_entries" THEN PageParams(Min(arg, EntryPageSizeCap), NoCursor)
    ELSE IF name = "_paginate_database_pages"
         THEN PageParams(Min(arg, RowPageSizeCap), NoCursor)
    ELSE PageParams(BlockPageSize, NoCursor)

\* Mutant: the follow-up request starts again without cursor.
next_params_NoCursor(name, arg, results, data) ==
    IF name = "_read_database_entries"
    THEN PageParams(Min(arg - Len(results), 50), "None")
    ELSE IF name = "_paginate_database_pages"
         THEN PageParams(Min(arg, 100), "None")
    ELSE PageParams(100, "None")

\* The params or payload of the request that follows the answer `data`,
\* with `results` gathered.
next_params(name, arg, results, data) ==
    IF name = "_read_database_entries"
    THEN PageParams(Min(arg - Len(results), EntryPageSizeCap), data.next_cursor)
    ELSE IF name = "_paginate_database_pages"
         THEN PageParams(Min(arg, RowPageSizeCap), data.next_cursor)
    ELSE PageParams(BlockPageSize, data.next_cursor)

\* The entry _read_database_entries makes of a page of the answer.
EntryOf(page) == [id |-> page, title |-> "Untitled"]

\* The loop over the results of one answer in _read_database_entries: it
\* breaks once `limit` entries are gathered.
RECURSIVE AppendEntries(_, _, _, _)
AppendEntries(results, pages_, i, limit) ==
    IF i > Len(pages_) \/ Len(results) >= limit THEN results
    ELSE AppendEntries(Append(results, EntryOf(pages_[i])), pages_, i + 1, limit)

\* The results gathered after the answer `data`.
Gathered(name, arg, results, data) ==
    IF name = "_read_database_entries"
    THEN IF data.results = <<>> THEN results
         ELSE AppendEntries(Append(results, EntryOf(data.results[1])), data.results, 2, arg)
    ELSE results \o data.results

\* Mutant: the loop goes on until an answer brings no results.
Breaks_OnEmptyPage(name, arg, results, data) == data.results = <<>>

\* The `break` after the answer `data`, with `results` gathered.
Breaks(name, arg, results, data) ==
    IF name = "_read_database_entries"
    THEN ~data.has_more \/ Len(results) >= arg
    ELSE ~data.has_more

\* A turn of the loop: the request `asked` is sent and answered by `data`.
PaginateTurn(name, arg, asked, data) ==
    LET method == IF name \in BlockPaginators THEN "GET" ELSE "POST"
        sent == Append(requests, [RequestTo(method, "{url}", <<>>) EXCEPT !.properties = asked])
        results == Gathered(name, arg, reply.payload, data)
    IN /\ op' = name
       /\ id_value' = arg
       /\ requests' = sent
       /\ response' = Append(response, data)
       /\ reply' = IF ~ResponseOk(data.status)
                    THEN Reply("raised", data.status, "", <<>>, <<>>, <<>>)
                    ELSE IF Breaks(name, arg, results, data)
                    THEN Reply("returned", 0, "", results, <<>>, <<>>)
                    ELSE Reply("running", 0, "", results, <<>>, <<>>)
       /\ UNCHANGED <<db_schema, params_properties, parent_type, environ, service>>
       /\ UNCHANGED scanVars

\* The call and the first turn; _read_database_entries with a limit that
\* is not positive returns at once.
PaginateFirst ==
    /\ op = ""
    /\ \E name \in PaginateOps : \E arg \in PaginateArgs(name) :
          IF name = "_read_database_entries" /\ ~(0 < arg)
          THEN /\ op' = name
               /\ id_value' = arg
               /\ reply' = Reply("returned", 0, "", <<>>, <<>>, <<>>)
               /\ UNCHANGED <<db_schema, params_properties, parent_type, environ,
                              service, requests, response>>
               /\ UNCHANGED scanVars
          ELSE \E data \in PaginationAnswers :
                  PaginateTurn(name, arg, first_params(name, arg), data)

\* A further turn, as far as the model follows the call.
PaginateMore ==
    /\ op \in PaginateOps
    /\ reply.kind = "running"
    /\ Len(requests) < MaxPages
    /\ \E data \in PaginationAnswers :
          PaginateTurn(op, id_value,
                       next_params(op, id_value, reply.payload, response[Len(response)]),
                       data)

PageInit ==
    /\ ScanIdle
    /\ db_schema = <<>>
    /\ params_properties = <<>>
    /\ parent_type = ""
    /\ id_value = 0
    /\ environ = <<>>
    /\ response = <<>>
    /\ service = "serving"
    /\ op = ""
    /\ requests = <<>>
    /\ reply = NoReply

PageNext == PaginateFirst \/ PaginateMore

PageSpec == PageInit /\ [][PageNext]_vars

\* ------------------------------------------------ claims on the pagination
Paginators == PaginateOps \ {"_read_database_entries"}

\* The results of the answers 1 to n, one after the other.
RECURSIVE AllResults(_)
AllResults(n) == IF n = 0 THEN <<>> ELSE AllResults(n - 1) \o response[n].results

\* C26: the pagination helpers send one request for each result page, give
\* each follow-up request the next_cursor of the answer before, never ask
\* for more than 100 results, go on only after an answer with has_more set,
\* and return, at the first answer without it, all results in order; so
\* they return exactly when Notion comes to answer with has_more unset.
C26_PaginationFollowsCursor ==
    op \in Paginators =>
        /\ Len(requests) = Len(response)
        /\ requests[1].properties.start_cursor = NoCursor
        /\ \A n \in 2..Len(requests) :
              requests[n].properties.start_cursor = response[n - 1].next_cursor
        /\ \A n \in 1..Len(requests) : requests[n].properties.page_size <= 100
        /\ \A n \in 1..(Len(response) - 1) :
              response[n].has_more /\ ResponseOk(response[n].status)
        /\ reply.kind = "returned" <=>
              (ResponseOk(response[Len(response)].status)
                 /\ ~response[Len(response)].has_more)
        /\ reply.kind = "returned" => reply.payload = AllResults(Len(response))
        /\ reply.kind = "running" => reply.payload = AllResults(Len(response))

\* A helper returned after three requests, the later two with the cursors
\* Notion gave, with the results of all three answers.
C26_Witness ==
    /\ op \in Paginators
    /\ reply.kind = "returned"
    /\ Len(requests) = 3
    /\ requests[2].properties.start_cursor = "c1"
    /\ requests[3].properties.start_cursor = "c2"
    /\ reply.payload = <<"p", "q", "r", "p">>


\* The ids of the entries gathered.
EntryIds == [i \in 1..Len(reply.payload) |-> reply.payload[i].id]

\* C30: _read_database_entries(database_id, limit) never gathers more than
\* limit entries, asks for a page size from 1 to 50 in every request, sends
\* no request after an answer that fills the limit or has has_more unset,
\* and returns the entries in the order Notion delivered them.
C30_EntriesWithinLimit ==
    op = "_read_database_entries" =>
        /\ Len(reply.payload) <= id_value
        /\ \A n \in 1..Len(requests) :
              /\ requests[n].properties.page_size >= 1
              /\ requests[n].properties.page_size <= 50
        /\ \A n \in 1..(Len(response) - 1) :
              /\ response[n].has_more
              /\ Len(AllResults(n)) < id_value
        /\ reply.kind \in {"returned", "running"} =>
              EntryIds = SubSeq(AllResults(Len(response)), 1,
                                Min(id_value, Len(AllResults(Len(response)))))
        /\ reply.kind = "running" =>
              /\ response[Len(response)].has_more
              /\ Len(reply.payload) < id_value

\* With limit 3 the second answer fills the limit: its second result is
\* left out and the second request asked for one result only.
C30_Witness ==
    /\ op = "_read_database_entries"
    /\ reply.kind = "returned"
    /\ id_value = 3
    /\ Len(requests) = 2
    /\ requests[2].properties.page_size = 1
    /\ response[2].has_more
    /\ EntryIds = <<"q", "r", "q">>


\* C27: a database that the scan meets again without title or without
\* parent keeps what it recorded before: an entry with a real title never
\* falls back to Untitled and an entry with a parent never loses it.
C27_DatabaseEntryKeepsEarlier ==
    [][\A i \in 1..Len(databases) :
          /\ i <= Len(databases')
          /\ databases'[i].id = databases[i].id
          /\ databases[i].title # "Untitled" => databases'[i].title # "Untitled"
          /\ databases[i].parent # NoParent => databases'[i].parent # NoParent]_vars


\* The operations that create a page in a database.
CreateInDatabaseOps == {"page.create", "create_page_in_database", "write_database"}

\* C28: every POST that creates a page in a database carries, under the name
\* of the database's title property, the title argument, whatever keys the
\* supplied properties hold.
C28_TitleArgumentInRequest ==
    op \in CreateInDatabaseOps =>
        \A i \in 1..Len(requests) :
            requests[i].method = "POST" =>
                LET title_property == get_database_title_property(db_schema)
                IN /\ PropHas(requests[i].properties, title_property)
                   /\ PropGet(requests[i].properties, title_property)
                        = PropGet(TitleOnly(title_property), title_property)

\* C29: the scan swallows nothing but a row query refused with 403 or 404.
\* Once the children listing of a block was refused with any error status,
\* or a row query with any other error status, the scan has raised that
\* status and returns no catalog.
C29_OnlyRowQuery403404Contained ==
    /\ skipped # {} =>
          /\ skipped = {FailId}
          /\ FailEndpoint = "query"
          /\ failStatus \in {403, 404}
    /\ (FailEndpoint = "children" /\ failStatus >= 400 /\ listed[FailId] > 0) =>
          /\ pc = "failed"
          /\ exc = failStatus
    /\ (FailEndpoint = "query" /\ failStatus >= 400 /\ failStatus \notin {403, 404}
          /\ queried[FailId] > 0) =>
          /\ pc = "failed"
          /\ exc = failStatus
    /\ pc = "failed" => exc = failStatus /\ failStatus >= 400

\* The listing of a block was refused with 404 after pages and a database
\* had been catalogued: the scan raised and returns neither catalog.
C29_Witness ==
    /\ pc = "failed"
    /\ FailEndpoint = "children"
    /\ failStatus = 404
    /\ listed[FailId] = 1
    /\ pages # <<>>
    /\ databases # <<>>
====
